---- MODULE Spec2Model ----
(***************************************************************************)
(* Model of the Mehrotra predictor-corrector driver of copters            *)
(* (src/src/lp/mpc), its line search, its augmented system, and the        *)
(* terminators of src/src/terminators.rs.                                  *)
(*                                                                         *)
(* Numbers.  An f64 value is modelled as a pair <<n, d>>:                  *)
(*   d > 0, n # 0   the finite value n/d (in lowest terms)                 *)
(*   <<0, 1>>       +0.0            <<0, -1>>   -0.0                       *)
(*   <<1, 0>>       +infinity       <<-1, 0>>   -infinity                  *)
(*   <<0, 0>>       NaN                                                    *)
(* Arithmetic is exact on finite values (rounding is not modelled) and     *)
(* follows IEEE 754 for zeros, infinities and NaN.                         *)
(***************************************************************************)
EXTENDS Integers, Sequences, FiniteSets, TLC

----------------------------------------------------------------------------
(* f64 arithmetic                                                          *)

Abs(i) == IF i < 0 THEN -i ELSE i

RECURSIVE Gcd(_, _)
Gcd(a, b) == IF b = 0 THEN a ELSE Gcd(b, a % b)

NaN == <<0, 0>>
PosInf == <<1, 0>>
NegInf == <<-1, 0>>
Zero == <<0, 1>>
NegZero == <<0, -1>>
One == <<1, 1>>

\* The finite value n/d, d # 0, in lowest terms; an exact zero result is +0.0.
Rat(n, d) ==
    IF n = 0 THEN Zero
    ELSE LET g == Gcd(Abs(n), Abs(d))
             s == IF d < 0 THEN -1 ELSE 1
         IN  <<(s * n) \div g, (s * d) \div g>>

FromInt(i) == Rat(i, 1)

IsNaN(a) == a[1] = 0 /\ a[2] = 0
IsInf(a) == a[1] # 0 /\ a[2] = 0
IsZero(a) == a[1] = 0 /\ a[2] # 0
\* f64::is_finite
IsFinite(a) == a[2] # 0
\* the sign bit
SignBit(a) == IF a[1] = 0 THEN a[2] < 0 ELSE a[1] < 0
SignedInf(neg) == IF neg THEN NegInf ELSE PosInf
SignedZero(neg) == IF neg THEN NegZero ELSE Zero

Neg(a) ==
    IF IsNaN(a) THEN NaN
    ELSE IF IsZero(a) THEN <<0, -a[2]>>
    ELSE <<-a[1], a[2]>>

Add(a, b) ==
    IF IsNaN(a) \/ IsNaN(b) THEN NaN
    ELSE IF IsInf(a) /\ IsInf(b) THEN (IF a = b THEN a ELSE NaN)
    ELSE IF IsInf(a) THEN a
    ELSE IF IsInf(b) THEN b
    ELSE IF IsZero(a) /\ IsZero(b) THEN SignedZero(SignBit(a) /\ SignBit(b))
    ELSE IF IsZero(a) THEN b
    ELSE IF IsZero(b) THEN a
    ELSE Rat(a[1] * b[2] + b[1] * a[2], a[2] * b[2])

Sub(a, b) == Add(a, Neg(b))

Mul(a, b) ==
    IF IsNaN(a) \/ IsNaN(b) THEN NaN
    ELSE IF (IsInf(a) /\ IsZero(b)) \/ (IsZero(a) /\ IsInf(b)) THEN NaN
    ELSE IF IsInf(a) \/ IsInf(b) THEN SignedInf(SignBit(a) # SignBit(b))
    ELSE IF IsZero(a) \/ IsZero(b) THEN SignedZero(SignBit(a) # SignBit(b))
    ELSE Rat(a[1] * b[1], a[2] * b[2])

Div(a, b) ==
    IF IsNaN(a) \/ IsNaN(b) THEN NaN
    ELSE IF (IsInf(a) /\ IsInf(b)) \/ (IsZero(a) /\ IsZero(b)) THEN NaN
    ELSE IF IsInf(a) \/ IsZero(b) THEN SignedInf(SignBit(a) # SignBit(b))
    ELSE IF IsZero(a) \/ IsInf(b) THEN SignedZero(SignBit(a) # SignBit(b))
    ELSE Rat(a[1] * b[2], a[2] * b[1])

\* a < b as f64 compares: false when either is NaN, -0.0 = +0.0.
Lt(a, b) ==
    IF IsNaN(a) \/ IsNaN(b) THEN FALSE
    ELSE IF IsInf(a) THEN a = NegInf /\ b # NegInf
    ELSE IF IsInf(b) THEN b = PosInf
    ELSE a[1] * Abs(b[2]) < b[1] * Abs(a[2])

Le(a, b) ==
    IF IsNaN(a) \/ IsNaN(b) THEN FALSE
    ELSE ~Lt(b, a)

Gt(a, b) == Lt(b, a)

\* f64::min: a NaN operand is ignored.
FMin(a, b) ==
    IF IsNaN(a) THEN b
    ELSE IF IsNaN(b) THEN a
    ELSE IF Lt(b, a) THEN b ELSE a

\* f64::clamp(lo, hi): NaN stays NaN.
Clamp(a, lo, hi) ==
    IF IsNaN(a) THEN NaN
    ELSE IF Lt(a, lo) THEN lo
    ELSE IF Gt(a, hi) THEN hi
    ELSE a

----------------------------------------------------------------------------
(* linalg::vector_ops on columns (sequences of f64)                        *)

cwise_multiply(x1, x2) == [i \in 1..Len(x1) |-> Mul(x1[i], x2[i])]

cwise_quotient(x1, x2) == [i \in 1..Len(x1) |-> Div(x1[i], x2[i])]

cwise_inverse(x) == [i \in 1..Len(x) |-> Div(One, x[i])]

\* Imported by lp/mpc but not defined in vector_ops.rs: the product, with the
\* entries of an infinite bound masked to zero.
cwise_multiply_finite(x1, x2) ==
    [i \in 1..Len(x1) |->
        IF IsFinite(x1[i]) /\ IsFinite(x2[i]) THEN Mul(x1[i], x2[i]) ELSE Zero]

RECURSIVE ColMinFrom(_, _, _)
ColMinFrom(x, i, minimum) ==
    IF i > Len(x) THEN minimum ELSE ColMinFrom(x, i + 1, FMin(minimum, x[i]))

col_min(x) == ColMinFrom(x, 1, PosInf)

RECURSIVE ColSumFrom(_, _, _)
ColSumFrom(x, i, acc) ==
    IF i > Len(x) THEN acc ELSE ColSumFrom(x, i + 1, Add(acc, x[i]))

col_sum(x) == ColSumFrom(x, 1, Zero)

ColAdd(a, b) == [i \in 1..Len(a) |-> Add(a[i], b[i])]
ColSub(a, b) == [i \in 1..Len(a) |-> Sub(a[i], b[i])]
ColNeg(a) == [i \in 1..Len(a) |-> Neg(a[i])]
ColScale(k, a) == [i \in 1..Len(a) |-> Mul(k, a[i])]

----------------------------------------------------------------------------
(* lp::mpc::line_search::LPLineSearch                                      *)

\* The per-index bound dx_min[i] of get_primal_step_length.
PrimalCandidate(x, l, u, dx) ==
    LET dx_neg == IF Lt(dx, Zero) THEN dx ELSE Neg(x)
        dx_pos == IF Gt(dx, Zero) THEN dx ELSE Neg(x)
        alpha_lb == IF IsFinite(l) THEN Div(Neg(Sub(x, l)), dx_neg) ELSE PosInf
        alpha_ub == IF IsFinite(u) THEN Div(Neg(Sub(x, u)), dx_pos) ELSE PosInf
    IN  FMin(alpha_lb, alpha_ub)

get_primal_step_length(safety_factor, x, l, u, dx) ==
    LET dx_min == [i \in 1..Len(x) |-> PrimalCandidate(x[i], l[i], u[i], dx[i])]
    IN  FMin(One, Mul(safety_factor, col_min(dx_min)))

get_dual_step_length(safety_factor, z_l, z_u, dz_l, dz_u) ==
    LET ds_ub_pos == [i \in 1..Len(z_u) |->
                        IF Gt(dz_u[i], Zero) THEN Neg(dz_u[i]) ELSE z_u[i]]
        alpha_dual_ub ==
            FMin(One, Mul(safety_factor, col_min(cwise_quotient(z_u, ds_ub_pos))))
        ds_lb_neg == [i \in 1..Len(z_l) |->
                        IF Lt(dz_l[i], Zero) THEN Neg(dz_l[i]) ELSE z_l[i]]
        alpha_dual_lb ==
            FMin(One, Mul(safety_factor, col_min(cwise_quotient(z_l, ds_lb_neg))))
    IN  FMin(alpha_dual_ub, alpha_dual_lb)

----------------------------------------------------------------------------
(* Bounds of the model                                                     *)

\* largest value of the MaxIterations option that is drawn
MaxOption == 2
\* residual norms are drawn from 0..MaxNorm
MaxNorm == 1
\* tolerance and slow_progress_tolerance are drawn from 0..MaxTol
MaxTol == 0
\* the wall clock runs from 0 to MaxClock seconds
MaxClock == 1
\* a MultiTerminator holds at most MaxMultiLen terminators
MaxMultiLen == 2
\* entries of a search direction are drawn from -MaxDir..MaxDir
MaxDir == 1

Norms == 0..MaxNorm

----------------------------------------------------------------------------
(* State                                                                   *)

VARIABLES
    lp,            \* LinearProgram: the bounds l, u (columns of f64)
    options,       \* SolverOptions
    terminator,    \* SolverHooks.terminator: [kind, terminators]
    state,         \* SolverState
    pc,            \* position of MehrotraPredictorCorrector::solve
    iter,          \* loop variable of solve
    result,        \* what solve returned: [kind, status]
    prev_state,    \* SlowProgressTerminator.prev_state: <<>> or <<norms>>
    interrupted,   \* InterruptTerminator.interrupted (Arc<AtomicBool>)
    start_time,    \* TimeOutTerminator.start_time
    now,           \* the wall clock (std::time::Instant::now)
    calls,         \* call log: how often each collaborator was invoked
    process,       \* the process: its Ctrl-C handler and the constructor calls made
    residual,      \* what the residual routines returned: [program, driver]
    solver,        \* a sparse linear solver and the last call made on it
    builder,       \* an LPSolverBuilder or QPSolverBuilder and what build returned
    emps,          \* threads in decompress_mps, the EMPS_LOCK statics, the C output file
    converted,     \* the model converted and the LinearProgram it gave
    search,        \* one call of get_primal_step_length: its inputs and the step length
    kkt,           \* an augmented system: its stored matrix and the calls made on it
    cache          \* the cache directory and the threads calling the getters

\* What the driver's steps leave alone.
aux_vars == <<process, residual, solver, builder, emps, converted, search, kkt, cache>>

\* The fields of the driver, its hooks and the clock.
driver_vars == <<lp, options, terminator, state, pc, iter, result, prev_state,
                 interrupted, start_time, now, calls>>

vars == <<driver_vars, aux_vars>>

Statuses == {"InProgress", "Optimal", "Infeasible", "Unbounded", "Unknown",
             "TimeLimit", "IterationLimit", "Interrupted"}

None == <<>>
Some(v) == <<v>>

----------------------------------------------------------------------------
(* terminators.rs                                                          *)

LeafKinds == {"Null", "Interrupt", "TimeOut", "Convergence", "SlowProgress"}

Leaf(kind) == [kind |-> kind, terminators |-> <<>>]

new_with_terminators(ts) == [kind |-> "Multi", terminators |-> ts]

new_default ==
    new_with_terminators(<<Leaf("Interrupt"), Leaf("TimeOut"), Leaf("Convergence")>>)

RECURSIVE HasKind(_, _)
HasKind(t, kind) ==
    \/ t.kind = kind
    \/ \E i \in 1..Len(t.terminators) : HasKind(t.terminators[i], kind)

\* One terminate() call returns the status (or "None") and the prev_state it leaves.
Fired(status, prev) == [status |-> status, prev |-> prev]

NullTerminate(prev) == Fired("None", prev)

\* An InterruptTerminator that never reads its flag.
InterruptTerminateIgnoringFlag(prev) == Fired("None", prev)

InterruptTerminate(prev) ==
    IF interrupted THEN Fired("Interrupted", prev) ELSE Fired("None", prev)

TimeOutTerminate(prev) ==
    IF now - start_time >= options.max_time
    THEN Fired("TimeLimit", prev) ELSE Fired("None", prev)

\* A ConvergenceTerminator that is content with one of the two norms.
ConvergenceTerminateEither(prev) ==
    IF \/ state.primal_infeasibility <= options.tolerance
       \/ state.dual_infeasibility <= options.tolerance
    THEN Fired("Optimal", prev) ELSE Fired("None", prev)

ConvergenceTerminate(prev) ==
    IF /\ state.primal_infeasibility <= options.tolerance
       /\ state.dual_infeasibility <= options.tolerance
    THEN Fired("Optimal", prev) ELSE Fired("None", prev)

\* A SlowProgressTerminator that asks for a change below the tolerance.
SlowProgressTerminateStrict(prev) ==
    IF /\ prev # None
       /\ Abs(state.primal_infeasibility - prev[1].primal_infeasibility)
             < options.slow_progress_tolerance
       /\ Abs(state.dual_infeasibility - prev[1].dual_infeasibility)
             < options.slow_progress_tolerance
    THEN Fired("Optimal", prev)
    ELSE Fired("None",
               Some([primal_infeasibility |-> state.primal_infeasibility,
                     dual_infeasibility |-> state.dual_infeasibility]))

SlowProgressTerminate(prev) ==
    IF /\ prev # None
       /\ Abs(state.primal_infeasibility - prev[1].primal_infeasibility)
             <= options.slow_progress_tolerance
       /\ Abs(state.dual_infeasibility - prev[1].dual_infeasibility)
             <= options.slow_progress_tolerance
    THEN Fired("Optimal", prev)
    ELSE Fired("None",
               Some([primal_infeasibility |-> state.primal_infeasibility,
                     dual_infeasibility |-> state.dual_infeasibility]))

RECURSIVE Terminate(_, _)
RECURSIVE MultiTerminateFrom(_, _, _)

\* A MultiTerminator that evaluates every terminator of its list and returns
\* the first status that fired.
RECURSIVE MultiTerminateEager(_, _, _)
MultiTerminateEager(ts, i, prev) ==
    IF i > Len(ts) THEN Fired("None", prev)
    ELSE LET r == Terminate(ts[i], prev)
             rest == MultiTerminateEager(ts, i + 1, r.prev)
         IN  IF r.status # "None" THEN Fired(r.status, rest.prev) ELSE rest

\* MultiTerminator::terminate, from the i-th terminator of the list on.
MultiTerminateFrom(ts, i, prev) ==
    IF i > Len(ts) THEN Fired("None", prev)
    ELSE LET r == Terminate(ts[i], prev)
         IN  IF r.status # "None" THEN r
             ELSE MultiTerminateFrom(ts, i + 1, r.prev)

MultiTerminate(ts, prev) == MultiTerminateFrom(ts, 1, prev)

\* dyn Terminator::terminate
Terminate(t, prev) ==
    CASE t.kind = "Null" -> NullTerminate(prev)
      [] t.kind = "Interrupt" -> InterruptTerminate(prev)
      [] t.kind = "TimeOut" -> TimeOutTerminate(prev)
      [] t.kind = "Convergence" -> ConvergenceTerminate(prev)
      [] t.kind = "SlowProgress" -> SlowProgressTerminate(prev)
      [] t.kind = "Multi" -> MultiTerminate(t.terminators, prev)

----------------------------------------------------------------------------
(* terminators.rs: construction                                            *)

TerminatorTypes == LeafKinds \cup {"Multi"}

\* A process in which no terminator has been constructed: handler is the flag
\* the installed Ctrl-C handler stores to (0: no handler), flags counts the
\* AtomicBool flags allocated, installs the handlers installed, panics the
\* constructor calls that panicked, constructions the constructor calls made
\* and last the latest of them.
FreshProcess ==
    [handler |-> 0, flags |-> 0, installs |-> 0, panics |-> 0,
     constructions |-> 0, last |-> [order |-> <<>>, ok |-> TRUE]]

\* ctrlc::set_handler as InterruptTerminator::new calls it: Err(MultipleHandlers)
\* when the process already has a handler.
set_handler(p, flag) ==
    IF p.handler # 0 THEN [ok |-> FALSE, process |-> p]
    ELSE [ok |-> TRUE, process |-> [p EXCEPT !.handler = flag, !.installs = @ + 1]]

\* An InterruptTerminator::new that drops the result of set_handler.
InterruptNewUnchecked(p) ==
    [ok |-> TRUE,
     process |-> set_handler([p EXCEPT !.flags = @ + 1], p.flags + 1).process]

\* InterruptTerminator::new: ok is FALSE when `.expect` panicked.
InterruptNew(p) ==
    LET r == set_handler([p EXCEPT !.flags = @ + 1], p.flags + 1)
    IN  IF r.ok THEN [ok |-> TRUE, process |-> r.process]
        ELSE [ok |-> FALSE, process |-> [r.process EXCEPT !.panics = @ + 1]]

\* T::new(&options) for the terminator type t; MultiTerminator::new is
\* new_default, whose first element is an InterruptTerminator.
Construct(t, p) ==
    IF t \in {"Interrupt", "Multi"} THEN InterruptNew(p)
    ELSE [ok |-> TRUE, process |-> p]

\* Builder::build: the selected types are constructed in the iteration order of
\* the HashSet; a panic ends the call.
RECURSIVE BuildFrom(_, _, _)
BuildFrom(order, i, p) ==
    IF i > Len(order) THEN [ok |-> TRUE, process |-> p]
    ELSE LET r == Construct(order[i], p)
         IN  IF r.ok THEN BuildFrom(order, i + 1, r.process) ELSE r

\* The process in which the terminator t of the driver was constructed.
ConstructedIn(t) ==
    IF HasKind(t, "Interrupt") THEN InterruptNew(FreshProcess).process
    ELSE FreshProcess

----------------------------------------------------------------------------
(* lib.rs: SolverState                                                     *)

\* SolverState::new(x, y, z_l, z_u)
NewSolverState(x, y, z_l, z_u) ==
    [status |-> "InProgress", nit |-> 0,
     x |-> x, y |-> y, z_l |-> z_l, z_u |-> z_u,
     alpha_primal |-> One, alpha_dual |-> One,
     primal_infeasibility |-> 0, dual_infeasibility |-> 0,
     sigma |-> None, mu |-> None, safety_factor |-> None]

set_sigma_mu(st, sigma, mu) == [st EXCEPT !.sigma = sigma, !.mu = mu]

set_safety_factor(st, eta) == [st EXCEPT !.safety_factor = eta]

----------------------------------------------------------------------------
(* lp::mpc::mu_update::AdaptiveMuUpdate                                    *)

AdaptiveMuGet(st) ==
    LET xl == ColSub(st.x, lp.l)
        xu == ColSub(st.x, lp.u)
        l == col_sum(cwise_multiply_finite(st.z_l, xl))
        u == col_sum(cwise_multiply_finite(st.z_u, xu))
        mu == Div(Add(l, u), FromInt(Len(st.x)))
    IN  Clamp(mu, options.mu_min, options.mu_max)

----------------------------------------------------------------------------
(* lp::mpc::augmented_system::StandardSystem                               *)

\* resolve: the step recovered from the linear solver's solution (dx, dy).
\* The solution itself depends on A, b and c, which the model leaves open.
ResolveStep(st, dx, dy) ==
    LET sigma_mu == Mul(st.sigma, st.mu)
        xl_inv == cwise_inverse(ColSub(st.x, lp.l))
        xu_inv == cwise_inverse(ColSub(st.x, lp.u))
        dz_l == ColSub(ColSub(ColScale(sigma_mu, xl_inv), st.z_l),
                       cwise_multiply(cwise_multiply(xl_inv, st.z_l), dx))
        dz_u == ColSub(ColSub(ColScale(sigma_mu, xu_inv), st.z_u),
                       cwise_multiply(cwise_multiply(xu_inv, st.z_u), dx))
    IN  [dx |-> dx, dy |-> dy, dz_l |-> dz_l, dz_u |-> dz_u]

\* What one call of the augmented system did: whether it returned Ok, and how
\* many numeric factorizations it ran.
SystemResult(ok, factorize_calls) == [ok |-> ok, factorize_calls |-> factorize_calls]

\* resolve: solver.solve on the current factorization.
SystemResolve(solve_ok) == SystemResult(solve_ok, 0)

\* solve: overwrite the diagonal, solver.factorize, then resolve.
SystemSolve(factorize_ok, solve_ok) ==
    IF ~factorize_ok THEN SystemResult(FALSE, 1)
    ELSE SystemResult(SystemResolve(solve_ok).ok,
                      1 + SystemResolve(solve_ok).factorize_calls)

----------------------------------------------------------------------------
(* lp::mpc::MehrotraPredictorCorrector                                     *)

DEFAULT_MAX_ITER == 100

\* The iteration limit without its default.
get_max_iter_as_given == options.MaxIterations

get_max_iter ==
    IF options.MaxIterations < 1 THEN DEFAULT_MAX_ITER ELSE options.MaxIterations

\* The line search the driver is built with (aff_ls, cc_ls): the primal and the
\* dual step length of LPLineSearch.
compute_max_step_length(st, step) ==
    [primal |-> get_primal_step_length(options.safety_factor, st.x, lp.l, lp.u, step.dx),
     dual |-> get_dual_step_length(options.safety_factor, st.z_l, st.z_u,
                                   step.dz_l, step.dz_u)]

\* st moved along step by the step lengths alpha.
Advance(st, step, alpha) ==
    [st EXCEPT !.x = ColAdd(st.x, ColScale(alpha.primal, step.dx)),
               !.y = ColAdd(st.y, ColScale(alpha.dual, step.dy)),
               !.z_l = ColAdd(st.z_l, ColScale(alpha.dual, step.dz_l)),
               !.z_u = ColAdd(st.z_u, ColScale(alpha.dual, step.dz_u))]

pow3(a) == Mul(Mul(a, a), a)

\* iterate, lines 127-128: the state the predictor is solved in; mu is what
\* the mu updater returned for st.
PredictorState(st, mu) ==
    set_safety_factor(set_sigma_mu(st, Zero, mu), One)

\* the system call of the affine (predictor) step
PredictorSolve(factorize_ok, solve_ok) == SystemSolve(factorize_ok, solve_ok)

\* the system call of the center-corrector step
CorrectorSolve(factorize_ok, solve_ok) == SystemSolve(factorize_ok, solve_ok)

\* iterate, lines 134-138: the iterate moved along the affine step.
AffineState(st, aff_step, alpha_aff) == Advance(st, aff_step, alpha_aff)

\* iterate, lines 140-145: the state the corrector is solved in; mu_aff is what
\* the mu updater returned for the affine state.
CorrectorState(st, mu_aff) ==
    set_safety_factor(set_sigma_mu(st, pow3(Div(mu_aff, st.mu)), st.mu),
                      Rat(99, 100))

\* An iterate that leaves the status of a fresh SolverState untouched.
IterateStatusUnset == "Unknown"

\* the status iterate leaves in the state
IterateStatus == "InProgress"

\* iterate, lines 151-168: the state after the corrector step; alpha is the
\* step length of the corrector line search, p and d are the norms of the
\* recomputed residual.
UpdatedState(st, corr_step, alpha, p, d) ==
    [Advance(st, corr_step, alpha) EXCEPT
        !.alpha_primal = alpha.primal,
        !.alpha_dual = alpha.dual,
        !.primal_infeasibility = p,
        !.dual_infeasibility = d,
        !.status = IterateStatus]

\* The linear-solver operation of an iteration that fails first, if any.
LinearOutcomes == {"ok", "aff_factorize", "aff_solve", "cc_factorize", "cc_solve"}

\* An iterate that applies the corrector step before it knows the corrector
\* solve succeeded.
iterateUpdatingFirst(st1, st2, st3, lin) ==
    LET r1 == PredictorSolve(lin # "aff_factorize", lin # "aff_solve")
        r2 == CorrectorSolve(lin # "cc_factorize", lin # "cc_solve")
    IN  IF ~r1.ok
        THEN [ok |-> FALSE, state |-> st1, factorize_calls |-> r1.factorize_calls]
        ELSE IF ~r2.ok
        THEN [ok |-> FALSE, state |-> st3,
              factorize_calls |-> r1.factorize_calls + r2.factorize_calls]
        ELSE [ok |-> TRUE, state |-> st3,
              factorize_calls |-> r1.factorize_calls + r2.factorize_calls]

\* iterate(state): the result, the state it leaves and the factorizations it
\* ran. st1 is the state the predictor is solved in, st2 the state the
\* corrector is solved in, st3 the state after the corrector step.
iterate(st1, st2, st3, lin) ==
    LET r1 == PredictorSolve(lin # "aff_factorize", lin # "aff_solve")
        r2 == CorrectorSolve(lin # "cc_factorize", lin # "cc_solve")
    IN  IF ~r1.ok
        THEN [ok |-> FALSE, state |-> st1, factorize_calls |-> r1.factorize_calls]
        ELSE IF ~r2.ok
        THEN [ok |-> FALSE, state |-> st2,
              factorize_calls |-> r1.factorize_calls + r2.factorize_calls]
        ELSE [ok |-> TRUE, state |-> st3,
              factorize_calls |-> r1.factorize_calls + r2.factorize_calls]

\* What solve returned: Pending while it runs.
Pending == [kind |-> "Pending", status |-> "InProgress"]
Ok(status) == [kind |-> "Ok", status |-> status]
Err == [kind |-> "Err", status |-> "InProgress"]

\* A loop that records the error of iterate and goes on.
AfterIterateKeepGoing(r) ==
    IF ~r.ok THEN [pc |-> "callback", result |-> [kind |-> "Err", status |-> "InProgress"]]
    ELSE IF r.state.status # "InProgress"
    THEN [pc |-> "done", result |-> [kind |-> "Ok", status |-> r.state.status]]
    ELSE [pc |-> "callback", result |-> [kind |-> "Pending", status |-> "InProgress"]]

\* A loop that goes from iterate to the termination check.
AfterIterateSkipCallback(r) ==
    IF ~r.ok THEN [pc |-> "done", result |-> [kind |-> "Err", status |-> "InProgress"]]
    ELSE IF r.state.status # "InProgress"
    THEN [pc |-> "done", result |-> [kind |-> "Ok", status |-> r.state.status]]
    ELSE [pc |-> "terminate", result |-> [kind |-> "Pending", status |-> "InProgress"]]

\* solve, lines 210-220: `self.iterate(state)?` and the status test after it;
\* r is what iterate returned.
AfterIterate(r) ==
    IF ~r.ok THEN [pc |-> "done", result |-> Err]
    ELSE IF r.state.status # "InProgress"
    THEN [pc |-> "done", result |-> Ok(r.state.status)]
    ELSE [pc |-> "callback", result |-> Pending]

\* solve, lines 223-231: t is what terminator.terminate returned.
AfterTerminate(t) ==
    IF t.status # "None"
    THEN [pc |-> "done", result |-> Ok(t.status)]
    ELSE [pc |-> "loop", result |-> Pending]

DirVals == {FromInt(i) : i \in -MaxDir..MaxDir}

\* The solutions (dx, dy) the linear solver may return for the program lp.
Solutions ==
    [dx : [1..Len(state.x) -> DirVals], dy : [1..Len(state.y) -> DirVals]]

\* solve, lines 202-207
SolveBegin ==
    /\ pc = "ready"
    /\ state' = [state EXCEPT !.nit = 0, !.status = "InProgress"]
    /\ calls' = [calls EXCEPT !.callback_init = @ + 1]
    /\ iter' = 0
    /\ pc' = "loop"
    /\ UNCHANGED <<aux_vars, lp, options, terminator, result, prev_state, interrupted,
                   start_time, now>>

\* solve, lines 208-220: one pass of the loop up to the callback
Iterate ==
    /\ pc = "loop"
    /\ iter < get_max_iter
    /\ \E lin \in LinearOutcomes, aff \in Solutions, cor \in Solutions,
          p \in Norms, d \in Norms :
       \E st \in {[state EXCEPT !.nit = iter]} :
       \E mu \in {AdaptiveMuGet(st)} :
       \E st1 \in {PredictorState(st, mu)} :
       \E aff_step \in {ResolveStep(st1, aff.dx, aff.dy)} :
       \E alpha_aff \in {compute_max_step_length(st1, aff_step)} :
       \E state_aff \in {AffineState(st1, aff_step, alpha_aff)} :
       \E mu_aff \in {AdaptiveMuGet(state_aff)} :
       \E st2 \in {CorrectorState(st1, mu_aff)} :
       \E corr_step \in {ResolveStep(st2, cor.dx, cor.dy)} :
       \E alpha_cc \in {compute_max_step_length(st2, corr_step)} :
       \E st3 \in {UpdatedState(st2, corr_step, alpha_cc, p, d)} :
       \E r \in {iterate(st1, st2, st3, lin)} :
           /\ state' = r.state
           /\ calls' = [calls EXCEPT !.factorize = r.factorize_calls]
           /\ pc' = AfterIterate(r).pc
           /\ result' = AfterIterate(r).result
    /\ UNCHANGED <<aux_vars, lp, options, terminator, iter, prev_state, interrupted,
                   start_time, now>>

\* solve, line 222
Callback ==
    /\ pc = "callback"
    /\ calls' = [calls EXCEPT !.callback_call = @ + 1]
    /\ pc' = "terminate"
    /\ UNCHANGED <<aux_vars, lp, options, terminator, state, iter, result, prev_state,
                   interrupted, start_time, now>>

\* solve, lines 223-231
TerminateCheck ==
    /\ pc = "terminate"
    /\ LET t == Terminate(terminator, prev_state)
       IN  /\ prev_state' = t.prev
           /\ pc' = AfterTerminate(t).pc
           /\ result' = AfterTerminate(t).result
           /\ calls' = [calls EXCEPT !.terminate = @ + 1, !.last_check = t.status]
           /\ iter' = IF t.status = "None" THEN iter + 1 ELSE iter
    /\ UNCHANGED <<aux_vars, lp, options, terminator, state, interrupted, start_time, now>>

\* solve, lines 232-233
LoopExit ==
    /\ pc = "loop"
    /\ iter >= get_max_iter
    /\ result' = Ok("IterationLimit")
    /\ pc' = "done"
    /\ UNCHANGED <<aux_vars, lp, options, terminator, state, iter, prev_state, interrupted,
                   start_time, now, calls>>

\* The Ctrl-C handler thread, or InterruptTerminator::interrupt.
Interrupt ==
    /\ HasKind(terminator, "Interrupt")
    /\ interrupted' = TRUE
    /\ UNCHANGED <<aux_vars, lp, options, terminator, state, pc, iter, result, prev_state,
                   start_time, now, calls>>

\* A second of wall-clock time passes.
Tick ==
    /\ now < MaxClock
    /\ now' = now + 1
    /\ UNCHANGED <<aux_vars, lp, options, terminator, state, pc, iter, result, prev_state,
                   interrupted, start_time, calls>>

SolverStep == SolveBegin \/ Iterate \/ Callback \/ TerminateCheck \/ LoopExit

Next ==
    \/ SolveBegin
    \/ Iterate
    \/ Callback
    \/ TerminateCheck
    \/ LoopExit
    \/ Interrupt
    \/ Tick

----------------------------------------------------------------------------
(* Initial states                                                          *)

Injective(f) == \A i, j \in DOMAIN f : i # j => f[i] # f[j]

\* The terminators a MultiTerminator may be given.
MultiElements == {Leaf(k) : k \in LeafKinds} \cup {new_default}

\* At most one InterruptTerminator exists in a process.
OneInterrupt(ts) ==
    Cardinality({i \in DOMAIN ts : HasKind(ts[i], "Interrupt")}) <= 1

TerminatorChoices ==
    {Leaf(k) : k \in LeafKinds}
    \cup {new_default}
    \cup {new_with_terminators(ts) :
            ts \in {f \in UNION {[1..k -> MultiElements] : k \in 0..MaxMultiLen} :
                        Injective(f) /\ OneInterrupt(f)}}

\* threads that call the loaders
MaxThreads == 2

\* No thread is in decompress_mps and both locks are free.
EmpsIdle ==
    [threads |-> [t \in 1..MaxThreads |-> [pc |-> "idle", via |-> "none"]],
     locks |-> [mps |-> 0, netlib |-> 0], output |-> 0]

\* Nothing outside the driver has run yet.
\* case names of the loaders; every case is an entry of the archive
MaxCases == 2

CacheThreads == 1..MaxThreads
Cases == 1..MaxCases

\* A thread that has not called a getter.
ThreadIdle == [getter |-> "none", case |-> 0, pc |-> "idle", entry |-> 0,
               content |-> None, outcome |-> None]

\* The empty cache directory, no thread in a getter.
CacheIdle == [tar |-> "absent",
              sif |-> [c \in Cases |-> "absent"],
              emps |-> [c \in Cases |-> "absent"],
              threads |-> [t \in CacheThreads |-> ThreadIdle]]

AuxInit ==
    /\ residual = [program |-> None, driver |-> None]
    /\ solver = None
    /\ builder = None
    /\ emps = EmpsIdle
    /\ converted = None
    /\ search = None
    /\ kkt = None
    /\ cache = CacheIdle

\* The state after the hooks, the options and the solver state are built and
\* before solve is called.
InitWith(program, opts, st, term) ==
    /\ lp = program
    /\ options = opts
    /\ terminator = term
    /\ state = st
    /\ pc = "ready"
    /\ iter = 0
    /\ result = Pending
    /\ prev_state = None
    /\ interrupted = FALSE
    /\ start_time = 0
    /\ now = 0
    /\ calls = [callback_init |-> 0, callback_call |-> 0, terminate |-> 0,
                factorize |-> 0, last_check |-> "None",
                terminator_initialize |-> 0]
    /\ process = ConstructedIn(term)
    /\ AuxInit

OptionsWith(max_iterations, tolerance, slow, max_time, safety_factor) ==
    [MaxIterations |-> max_iterations, tolerance |-> tolerance,
     slow_progress_tolerance |-> slow, max_time |-> max_time,
     safety_factor |-> safety_factor, mu_min |-> Rat(1, 4), mu_max |-> FromInt(4)]

\* The option sets drawn: MaxIterations = 0 selects DEFAULT_MAX_ITER.
InitOptions(max_iterations) ==
    {OptionsWith(mi, tol, slow, mt, Rat(999, 1000)) :
        mi \in max_iterations, tol \in 0..MaxTol, slow \in 0..MaxTol,
        mt \in 1..MaxClock}

\* The driver on a program without variables: every terminator with every
\* explicit iteration limit, and the default limit with each single terminator.
Init ==
    \/ \E opts \in InitOptions(1..MaxOption), term \in TerminatorChoices :
        InitWith([l |-> <<>>, u |-> <<>>], opts,
                 NewSolverState(<<>>, <<>>, <<>>, <<>>), term)
    \/ \E opts \in InitOptions({0}), kind \in LeafKinds :
        InitWith([l |-> <<>>, u |-> <<>>], opts,
                 NewSolverState(<<>>, <<>>, <<>>, <<>>), Leaf(kind))

Spec == Init /\ [][Next]_vars

\* solve runs on one thread and takes its next step whenever it has one.
FairSpec == Spec /\ WF_vars(SolverStep)

\* Programs with one variable and no equality constraint: the bounds, and for each a
\* strictly interior x with multipliers of the right sign.  At an infinite bound
\* the multiplier is 0, or 1 and -1 as the caller of test_solver_instances
\* passes them.
LowerBounds == {NegInf, FromInt(-2), Zero}
UpperBounds == {PosInf, FromInt(2)}
InteriorPoints(l, u) == {x \in {FromInt(i) : i \in -1..1} : Lt(l, x) /\ Lt(x, u)}
LowerMultipliers(l) == IF IsFinite(l) THEN {One} ELSE {Zero, One}
UpperMultipliers(u) == IF IsFinite(u) THEN {FromInt(-1)} ELSE {Zero, FromInt(-1)}
SafetyFactors == {Rat(1, 4), Rat(1, 2)}

\* The driver on the one-variable programs, for one iteration.
InitLP ==
    \E l \in LowerBounds, u \in UpperBounds, sf \in SafetyFactors :
    \E x \in InteriorPoints(l, u), z_l \in LowerMultipliers(l),
       z_u \in UpperMultipliers(u) :
        InitWith([l |-> <<l>>, u |-> <<u>>],
                 OptionsWith(1, 0, 0, 1, sf),
                 NewSolverState(<<x>>, <<>>, <<z_l>>, <<z_u>>),
                 new_default)

SpecLP == InitLP /\ [][Next]_vars

\* The driver built on the program without variables and not yet run: the
\* state the routines outside the driver start from.
InitIdle ==
    InitWith([l |-> <<>>, u |-> <<>>], OptionsWith(1, 0, 0, 1, Rat(1, 2)),
             NewSolverState(<<>>, <<>>, <<>>, <<>>), Leaf("Null"))

----------------------------------------------------------------------------
(* Constructing terminators in one process                                 *)

\* constructor calls made in one process
MaxConstructions == 2
\* terminator types selected in one Builder
MaxSelected == 2

\* One constructor call; a panic unwinds to the caller, which may go on.  It
\* constructs terminator types in order: a single type for T::new and
\* MultiTerminator::new_default, the selected set in some iteration order for
\* Builder::build.
ConstructTerminators ==
    /\ process.constructions < MaxConstructions
    /\ \E order \in {o \in UNION {[1..k -> TerminatorTypes] : k \in 1..MaxSelected} :
                        Injective(o)} :
       \E r \in {BuildFrom(order, 1, process)} :
           process' = [r.process EXCEPT !.constructions = @ + 1,
                                        !.last = [order |-> order, ok |-> r.ok]]
    /\ UNCHANGED <<driver_vars, residual, solver, builder, emps, converted, search, kkt, cache>>

InitConstruct ==
    \E opts \in InitOptions({1}) :
        InitWith([l |-> <<>>, u |-> <<>>], opts,
                 NewSolverState(<<>>, <<>>, <<>>, <<>>), Leaf("Null"))

SpecConstruct == InitConstruct /\ [][ConstructTerminators]_vars

----------------------------------------------------------------------------
(* One termination check of a ConvergenceTerminator                        *)

\* numbers of variables and of constraints of the program
MaxDim == 2
\* the norms of the residual are drawn from 0..MaxCheckNorm
MaxCheckNorm == 2
\* the tolerance is drawn from 0..MaxCheckTol
MaxCheckTol == 1

\* The driver of a program with n variables and m constraints after the callback
\* of its first iteration, which left the norms p and d in the state.
InitCheck ==
    \E n \in 0..MaxDim, m \in 0..MaxDim, p \in 0..MaxCheckNorm,
       d \in 0..MaxCheckNorm, tol \in 0..MaxCheckTol :
        /\ lp = [l |-> [i \in 1..n |-> NegInf], u |-> [i \in 1..n |-> PosInf]]
        /\ options = OptionsWith(1, tol, 0, 1, Rat(1, 2))
        /\ terminator = Leaf("Convergence")
        /\ state = [LET zeros(k) == [i \in 1..k |-> Zero]
                     IN  NewSolverState(zeros(n), zeros(m), zeros(n), zeros(n)) EXCEPT
                            !.primal_infeasibility = p, !.dual_infeasibility = d]
        /\ pc = "terminate"
        /\ iter = 0
        /\ result = Pending
        /\ prev_state = None
        /\ interrupted = FALSE
        /\ start_time = 0
        /\ now = 0
        /\ calls = [callback_init |-> 1, callback_call |-> 1, terminate |-> 0,
                    factorize |-> 2, last_check |-> "None",
                    terminator_initialize |-> 0]
        /\ process = ConstructedIn(terminator)
        /\ AuxInit

SpecCheck == InitCheck /\ [][TerminateCheck]_vars

----------------------------------------------------------------------------
(* The residual routines of a linear program                               *)

\* the entries of c, b and y are drawn from 0..MaxCoef
MaxCoef == 1

RECURSIVE DotFrom(_, _, _, _)
DotFrom(a, b, i, acc) ==
    IF i > Len(a) THEN acc ELSE DotFrom(a, b, i + 1, Add(acc, Mul(a[i], b[i])))

\* A * x for a matrix given by its rows
MatVec(A, x) == [i \in 1..Len(A) |-> DotFrom(A[i], x, 1, Zero)]

\* A.transpose() * y for a matrix with n columns
MatTVec(A, y, n) ==
    [j \in 1..n |-> DotFrom([i \in 1..Len(A) |-> A[i][j]], y, 1, Zero)]

\* <LinearProgram as OptimizationProgram>::compute_residual
LinearProgram_compute_residual(st) ==
    [dual_feasibility |->
        ColAdd(ColAdd(ColAdd(ColNeg(lp.c), MatTVec(lp.A, st.y, Len(st.x))),
                      st.z_l), st.z_u),
     primal_feasibility |-> ColSub(MatVec(lp.A, st.x), lp.b),
     cs_lower |-> ColNeg(cwise_multiply_finite(st.z_l, ColSub(st.x, lp.l))),
     cs_upper |-> ColNeg(cwise_multiply_finite(st.z_u, ColSub(st.x, lp.u)))]

\* compute_residual with the plain componentwise product
compute_residual_unmasked(st) ==
    [dual_feasibility |->
        ColSub(ColSub(ColSub(lp.c, MatTVec(lp.A, st.y, Len(st.x))),
                      st.z_l), st.z_u),
     primal_feasibility |-> ColSub(lp.b, MatVec(lp.A, st.x)),
     cs_lower |-> ColNeg(cwise_multiply(st.z_l, ColSub(st.x, lp.l))),
     cs_upper |-> ColNeg(cwise_multiply(st.z_u, ColSub(st.x, lp.u)))]

\* MehrotraPredictorCorrector::compute_residual
compute_residual(st) ==
    [dual_feasibility |->
        ColSub(ColSub(ColSub(lp.c, MatTVec(lp.A, st.y, Len(st.x))),
                      st.z_l), st.z_u),
     primal_feasibility |-> ColSub(lp.b, MatVec(lp.A, st.x)),
     cs_lower |-> ColNeg(cwise_multiply_finite(st.z_l, ColSub(st.x, lp.l))),
     cs_upper |-> ColNeg(cwise_multiply_finite(st.z_u, ColSub(st.x, lp.u)))]

ProgramResidual ==
    /\ residual.program = None
    /\ residual' = [residual EXCEPT !.program = Some(LinearProgram_compute_residual(state))]
    /\ UNCHANGED <<driver_vars, process, solver, builder, emps, converted, search, kkt, cache>>

DriverResidual ==
    /\ residual.driver = None
    /\ residual' = [residual EXCEPT !.driver = Some(compute_residual(state))]
    /\ UNCHANGED <<driver_vars, process, solver, builder, emps, converted, search, kkt, cache>>

NextResidual ==
    \/ ProgramResidual
    \/ DriverResidual

Coefs == {FromInt(i) : i \in 0..MaxCoef}

\* Programs with two variables and one constraint, and states at x = (1, 1)
\* strictly inside the bounds.
InitResidual ==
    \E c1 \in Coefs, c2 \in Coefs, row \in {<<One, Zero>>, <<One, One>>, <<FromInt(-1), One>>}, b \in Coefs,
       l1 \in {NegInf, Zero}, u2 \in {PosInf, FromInt(2)},
       y \in Coefs, z_l1 \in Coefs, z_u2 \in {Neg(k) : k \in Coefs} :
        InitWith([c |-> <<c1, c2>>, A |-> <<row>>, b |-> <<b>>,
                  l |-> <<l1, Zero>>, u |-> <<PosInf, u2>>],
                 OptionsWith(1, 0, 0, 1, Rat(1, 2)),
                 NewSolverState(<<One, One>>, <<y>>, <<z_l1, One>>, <<Zero, z_u2>>),
                 Leaf("Null"))

SpecResidual == InitResidual /\ [][NextResidual]_vars

----------------------------------------------------------------------------
(* linalg: the sparse solvers                                              *)
(*                                                                         *)
(* A matrix is known by its name.  An Option field is None or Some(name).  *)
(* L_values is None (empty), Some("zeros"), Some("partial") or the name of *)
(* the matrix factorized.  ldlt borrows symbolic and L_values: it is       *)
(* Some("valid") until one of the two is replaced, then Some("dangling").  *)
(* A library call may fail; `fail` names the call that does, or is "none". *)

\* matrices are named 1..MaxMat
MaxMat == 2

Outcome(res, fields, sol) == [result |-> res, fields |-> fields, sol |-> sol]

Dangle(ldlt) == IF ldlt = None THEN None ELSE Some("dangling")

\* What solving with a dangling factorization may do.
DanglingSolves == {[result |-> "Ok", sol |-> "garbage"], [result |-> "crash", sol |-> "garbage"]}

\* <SimplicialSparseCholesky as Solver>::new and
\* <SupernodalSparseCholesky as Solver>::new, which differ in the triangle of
\* the matrix and in the faer kernel they call
CholeskyNew == [symbolic |-> None, L_values |-> None, perm |-> None, ldlt |-> None]

\* <SimplicialSparseCholesky as Solver>::analyze and
\* <SupernodalSparseCholesky as Solver>::analyze, which differ in the triangle of
\* the matrix and in the faer kernel they call
CholeskyAnalyze(s, mat, fail) ==
    IF fail = "perm_reserve" THEN Outcome("MemoryReservation", s, None)
    ELSE IF fail = "order" THEN Outcome("SymbolicFactorization", s, None)
    ELSE LET s1 == [s EXCEPT !.perm = Some(mat)]
         IN  IF fail = "get_mat" THEN Outcome("MemoryReservation", s1, None)
             ELSE IF fail = "symbolic" THEN Outcome("SymbolicFactorization", s1, None)
             ELSE Outcome("Ok", [s1 EXCEPT !.symbolic = Some(mat),
                                           !.ldlt = Dangle(s.ldlt)], None)

\* <SimplicialSparseCholesky as Solver>::factorize and
\* <SupernodalSparseCholesky as Solver>::factorize, which differ in the triangle of
\* the matrix and in the faer kernel they call
CholeskyFactorize(s, mat, fail) ==
    IF s.symbolic = None THEN Outcome("Uninitialized", s, None)
    ELSE LET s1 == [s EXCEPT !.L_values = None, !.ldlt = Dangle(s.ldlt)]
             s2 == [s1 EXCEPT !.L_values = Some("zeros")]
         IN  IF fail = "values_reserve" THEN Outcome("MemoryReservation", s1, None)
             ELSE IF s.perm = None THEN Outcome("panic", s2, None)
             ELSE IF fail = "get_mat" THEN Outcome("MemoryReservation", s2, None)
             ELSE IF fail = "numeric" THEN
                 Outcome("NumericFactorization", [s2 EXCEPT !.L_values = Some("partial")], None)
             ELSE Outcome("Ok", [s2 EXCEPT !.L_values = Some(mat),
                                           !.ldlt = Some("valid")], None)

\* solve_in_place without the check of the factorization
CholeskySolveInPlaceUnchecked(s, sol, fail, ub) ==
    IF s.symbolic = None THEN Outcome("Uninitialized", s, sol)
    ELSE IF s.perm = None THEN Outcome("Uninitialized", s, sol)
    ELSE IF fail = "scratch" THEN Outcome("MemoryAllocation", s, sol)
    ELSE IF s.ldlt # Some("valid") THEN Outcome(ub.result, s, ub.sol)
    ELSE Outcome("Ok", s, "x")

\* <SimplicialSparseCholesky as Solver>::solve_in_place and
\* <SupernodalSparseCholesky as Solver>::solve_in_place, which differ in the triangle of
\* the matrix and in the faer kernel they call
CholeskySolveInPlace(s, sol, fail, ub) ==
    IF s.symbolic = None THEN Outcome("Uninitialized", s, sol)
    ELSE IF s.perm = None THEN Outcome("Uninitialized", s, sol)
    ELSE IF s.ldlt = None THEN Outcome("Uninitialized", s, sol)
    ELSE IF fail = "scratch" THEN Outcome("MemoryAllocation", s, sol)
    ELSE IF s.ldlt = Some("dangling") THEN Outcome(ub.result, s, ub.sol)
    ELSE Outcome("Ok", s, "x")

\* <SimplicialSparseLu as Solver>::new
LuNew == [lu |-> None, row_perm |-> None, col_perm |-> None, nrows |-> 0, ncols |-> 0]

\* <SimplicialSparseLu as Solver>::analyze; matrix k is k by k
LuAnalyze(s, mat, fail) ==
    LET s1 == [s EXCEPT !.nrows = mat, !.ncols = mat]
    IN  IF fail = "perm_reserve" THEN Outcome("MemoryReservation", s1, None)
        ELSE IF fail = "order" THEN Outcome("SymbolicFactorization", s1, None)
        ELSE Outcome("Ok", [s1 EXCEPT !.col_perm = Some(mat)], None)

\* <SimplicialSparseLu as Solver>::factorize
LuFactorize(s, mat, fail) ==
    IF s.col_perm = None THEN Outcome("Uninitialized", s, None)
    ELSE IF fail = "values_reserve" THEN Outcome("MemoryReservation", s, None)
    ELSE IF fail = "numeric" THEN Outcome("LuFactorization", s, None)
    ELSE Outcome("Ok", [s EXCEPT !.row_perm = Some(mat), !.lu = Some(mat)], None)

\* <SimplicialSparseLu as Solver>::solve_in_place
LuSolveInPlace(s, sol) ==
    IF s.lu = None THEN Outcome("Uninitialized", s, sol)
    ELSE IF s.row_perm = None THEN Outcome("Uninitialized", s, sol)
    ELSE IF s.col_perm = None THEN Outcome("Uninitialized", s, sol)
    ELSE Outcome("Ok", s, "x")

\* <SimplicialSparseLu as Solver>::solve: the error leaves no solution
LuSolve(s, b) ==
    LET r == LuSolveInPlace(s, b)
    IN  IF r.result = "Ok" THEN r ELSE Outcome(r.result, r.fields, None)

\* Solver::solve of the Cholesky variants: solve_in_place on a copy of b
CholeskySolve(in_place) ==
    IF in_place.result = "Ok" THEN in_place
    ELSE Outcome(in_place.result, in_place.fields, None)

SolverKinds == {"SimplicialSparseCholesky", "SupernodalSparseCholesky", "SimplicialSparseLu"}

\* The solver after a call: its fields, whether an analyze and a factorize have
\* succeeded on it, and the call with the fields and the flags it found.
AfterCall(op, r, sol) ==
    [solver EXCEPT
        !.fields = r.fields,
        !.analyzed = @ \/ (op = "analyze" /\ r.result = "Ok"),
        !.factorized = @ \/ (op \in {"factorize", "refactorize"} /\ r.result = "Ok"),
        !.last = [op |-> op, result |-> r.result, fields |-> solver.fields,
                  analyzed |-> solver.analyzed, factorized |-> solver.factorized,
                  sol |-> sol, sol_after |-> r.sol]]

\* S::new()
CallNew ==
    /\ solver = None
    /\ \E kind \in SolverKinds :
       \E fields \in {IF kind = "SimplicialSparseLu" THEN LuNew ELSE CholeskyNew} :
        solver' = [kind |-> kind, fields |-> fields, analyzed |-> FALSE,
                   factorized |-> FALSE,
                   last |-> [op |-> "new", result |-> "Ok", fields |-> fields,
                             analyzed |-> FALSE, factorized |-> FALSE,
                             sol |-> None, sol_after |-> None]]
    /\ UNCHANGED <<driver_vars, process, residual, builder, emps, converted, search, kkt, cache>>

\* solver.analyze(mat); a crash or a panic has ended the use of the solver
CallAnalyze ==
    /\ solver # None
    /\ solver.last.result \notin {"panic", "crash"}
    /\ \E mat \in 1..MaxMat,
          fail \in {"none", "perm_reserve", "order", "get_mat", "symbolic"} :
        solver' = AfterCall("analyze",
                            IF solver.kind = "SimplicialSparseLu"
                            THEN LuAnalyze(solver.fields, mat, fail)
                            ELSE CholeskyAnalyze(solver.fields, mat, fail),
                            None)
    /\ UNCHANGED <<driver_vars, process, residual, builder, emps, converted, search, kkt, cache>>

\* solver.factorize(mat)
CallFactorize ==
    /\ solver # None
    /\ solver.last.result \notin {"panic", "crash"}
    /\ \E mat \in 1..MaxMat, fail \in {"none", "values_reserve", "get_mat", "numeric"} :
        solver' = AfterCall("factorize",
                            IF solver.kind = "SimplicialSparseLu"
                            THEN LuFactorize(solver.fields, mat, fail)
                            ELSE CholeskyFactorize(solver.fields, mat, fail),
                            None)
    /\ UNCHANGED <<driver_vars, process, residual, builder, emps, converted, search, kkt, cache>>

\* solver.refactorize(mat) of SupernodalSparseCholesky and of SimplicialSparseLu,
\* which call self.factorize(mat); SimplicialSparseCholesky has none
CallRefactorize ==
    /\ solver # None
    /\ solver.last.result \notin {"panic", "crash"}
    /\ solver.kind # "SimplicialSparseCholesky"
    /\ \E mat \in 1..MaxMat, fail \in {"none", "values_reserve", "get_mat", "numeric"} :
        solver' = AfterCall("refactorize",
                            IF solver.kind = "SimplicialSparseLu"
                            THEN LuFactorize(solver.fields, mat, fail)
                            ELSE CholeskyFactorize(solver.fields, mat, fail),
                            None)
    /\ UNCHANGED <<driver_vars, process, residual, builder, emps, converted, search, kkt, cache>>

\* solver.solve_in_place(b)
CallSolveInPlace ==
    /\ solver # None
    /\ solver.last.result \notin {"panic", "crash"}
    /\ \E fail \in {"none", "scratch"}, ub \in DanglingSolves :
        solver' = AfterCall("solve_in_place",
                            IF solver.kind = "SimplicialSparseLu"
                            THEN LuSolveInPlace(solver.fields, "b")
                            ELSE CholeskySolveInPlace(solver.fields, "b", fail, ub),
                            "b")
    /\ UNCHANGED <<driver_vars, process, residual, builder, emps, converted, search, kkt, cache>>

\* solver.solve(b)
CallSolve ==
    /\ solver # None
    /\ solver.last.result \notin {"panic", "crash"}
    /\ \E fail \in {"none", "scratch"}, ub \in DanglingSolves :
        solver' = AfterCall("solve",
                            IF solver.kind = "SimplicialSparseLu"
                            THEN LuSolve(solver.fields, "b")
                            ELSE CholeskySolve(CholeskySolveInPlace(solver.fields, "b",
                                                                    fail, ub)),
                            "b")
    /\ UNCHANGED <<driver_vars, process, residual, builder, emps, converted, search, kkt, cache>>

NextSolver ==
    \/ CallNew
    \/ CallAnalyze
    \/ CallFactorize
    \/ CallRefactorize
    \/ CallSolveInPlace
    \/ CallSolve

SpecSolver == InitIdle /\ [][NextSolver]_vars

----------------------------------------------------------------------------
(* lp::LPSolverBuilder and qp::QPSolverBuilder                             *)

\* LPSolverType and QPSolverType
SolverTypes == {"MpcSimplicialCholesky", "MpcSupernodalCholesky", "MpcSimplicialLu"}

\* MehrotraPredictorCorrector::<LinSolve, Sys<LinSolve>, MU>::new(lp, options)
Mpc(linsolve, system, program, opts) ==
    [LinSolve |-> linsolve, Sys |-> [system |-> system, Solver |-> linsolve],
     MU |-> "AdaptiveMuUpdate", lp |-> program, options |-> opts]

\* LPSolverBuilder::build
LPSolverBuilder_build(b) ==
    IF b.lp = None THEN [ok |-> FALSE, error |-> "Linear program must be provided"]
    ELSE IF b.solver_type = None THEN [ok |-> FALSE, error |-> "Solver type must be specified"]
    ELSE CASE b.solver_type[1] = "MpcSimplicialCholesky" ->
                [ok |-> TRUE, solver |-> Mpc("SimplicialSparseCholesky", "SlackReducedSystem",
                                             b.lp[1], b.options)]
           [] b.solver_type[1] = "MpcSupernodalCholesky" ->
                [ok |-> TRUE, solver |-> Mpc("SupernodalSparseCholesky", "SlackReducedSystem",
                                             b.lp[1], b.options)]
           [] b.solver_type[1] = "MpcSimplicialLu" ->
                [ok |-> TRUE, solver |-> Mpc("SimplicialSparseCholesky", "SlackReducedSystem",
                                             b.lp[1], b.options)]

\* QPSolverBuilder::build
QPSolverBuilder_build(b) ==
    IF b.lp = None THEN [ok |-> FALSE, error |-> "Linear program must be provided"]
    ELSE IF b.solver_type = None THEN [ok |-> FALSE, error |-> "Solver type must be specified"]
    ELSE CASE b.solver_type[1] = "MpcSimplicialCholesky" ->
                [ok |-> TRUE, solver |-> Mpc("SimplicialSparseCholesky", "StandardSystem",
                                             b.lp[1], b.options)]
           [] b.solver_type[1] = "MpcSupernodalCholesky" ->
                [ok |-> TRUE, solver |-> Mpc("SupernodalSparseCholesky", "StandardSystem",
                                             b.lp[1], b.options)]
           [] b.solver_type[1] = "MpcSimplicialLu" ->
                [ok |-> TRUE, solver |-> Mpc("SimplicialSparseCholesky", "StandardSystem",
                                             b.lp[1], b.options)]

\* programs are named 1..MaxProgram
MaxProgram == 2

\* LPSolverBuilder::new and QPSolverBuilder::new
NewBuilder ==
    /\ builder = None
    /\ \E kind \in {"LP", "QP"} :
        builder' = [kind |-> kind, lp |-> None, solver_type |-> None,
                    options |-> OptionsWith(0, 0, 0, 1, Rat(1, 2)), built |-> None]
    /\ UNCHANGED <<driver_vars, process, residual, solver, emps, converted, search, kkt, cache>>

\* with_lp; build consumes the builder, so the setters come before it
with_lp ==
    /\ builder # None
    /\ builder.built = None
    /\ \E program \in 1..MaxProgram : builder' = [builder EXCEPT !.lp = Some(program)]
    /\ UNCHANGED <<driver_vars, process, residual, solver, emps, converted, search, kkt, cache>>

\* with_solver
with_solver ==
    /\ builder # None
    /\ builder.built = None
    /\ \E t \in SolverTypes : builder' = [builder EXCEPT !.solver_type = Some(t)]
    /\ UNCHANGED <<driver_vars, process, residual, solver, emps, converted, search, kkt, cache>>

\* with_options
with_options ==
    /\ builder # None
    /\ builder.built = None
    /\ \E mi \in 0..MaxOption :
        builder' = [builder EXCEPT !.options = OptionsWith(mi, 0, 0, 1, Rat(1, 2))]
    /\ UNCHANGED <<driver_vars, process, residual, solver, emps, converted, search, kkt, cache>>

\* build, of the builder of either kind
Build ==
    /\ builder # None
    /\ builder.built = None
    /\ builder' = [builder EXCEPT !.built =
                        Some(IF builder.kind = "LP" THEN LPSolverBuilder_build(builder)
                             ELSE QPSolverBuilder_build(builder))]
    /\ UNCHANGED <<driver_vars, process, residual, solver, emps, converted, search, kkt, cache>>

NextBuilder ==
    \/ NewBuilder
    \/ with_lp
    \/ with_solver
    \/ with_options
    \/ Build

SpecBuilder == InitIdle /\ [][NextBuilder]_vars

----------------------------------------------------------------------------
(* loaders: decompress_mps of loaders::mps and of loaders::netlib          *)
(*                                                                         *)
(* Each module has its own static EMPS_LOCK; both call the one C           *)
(* decompressor.  A thread's pc names the statement it executes next.      *)

\* loaders::mps::decompress_mps and loaders::netlib::decompress_mps
EntryPoints == {"mps", "netlib"}

\* The EMPS_LOCK static that an entry point locks: the one of its own module.
LockOf(via) == via

\* decompress_mps is called and finds the file; up to the lock.
Enter(t) ==
    /\ emps.threads[t].pc = "idle"
    /\ \E via \in EntryPoints :
        emps' = [emps EXCEPT !.threads[t] = [pc |-> "lock", via |-> via]]
    /\ UNCHANGED <<driver_vars, process, residual, solver, builder, converted, search, kkt, cache>>

\* let _guard = EMPS_LOCK.lock().unwrap()
Lock(t) ==
    /\ emps.threads[t].pc = "lock"
    /\ emps.locks[LockOf(emps.threads[t].via)] = 0
    /\ emps' = [emps EXCEPT !.threads[t].pc = "fopen",
                            !.locks[LockOf(emps.threads[t].via)] = t]
    /\ UNCHANGED <<driver_vars, process, residual, solver, builder, converted, search, kkt, cache>>

\* libc::fopen: a null file returns Err and drops the guard
Fopen(t) ==
    /\ emps.threads[t].pc = "fopen"
    /\ \/ emps' = [emps EXCEPT !.threads[t].pc = "set_emps_output"]
       \/ emps' = [emps EXCEPT !.threads[t] = [pc |-> "idle", via |-> "none"],
                               !.locks[LockOf(emps.threads[t].via)] = 0]
    /\ UNCHANGED <<driver_vars, process, residual, solver, builder, converted, search, kkt, cache>>

\* set_emps_output(out_file)
SetEmpsOutput(t) ==
    /\ emps.threads[t].pc = "set_emps_output"
    /\ emps' = [emps EXCEPT !.threads[t].pc = "emps_init", !.output = t]
    /\ UNCHANGED <<driver_vars, process, residual, solver, builder, converted, search, kkt, cache>>

\* emps_init()
EmpsInitCall(t) ==
    /\ emps.threads[t].pc = "emps_init"
    /\ emps' = [emps EXCEPT !.threads[t].pc = "process_from_filename"]
    /\ UNCHANGED <<driver_vars, process, residual, solver, builder, converted, search, kkt, cache>>

\* process_from_filename(infile1_ptr)
ProcessFromFilename(t) ==
    /\ emps.threads[t].pc = "process_from_filename"
    /\ emps' = [emps EXCEPT !.threads[t].pc = "fclose"]
    /\ UNCHANGED <<driver_vars, process, residual, solver, builder, converted, search, kkt, cache>>

\* fflush, fclose, Ok(tmpfile): the guard is dropped on return
Fclose(t) ==
    /\ emps.threads[t].pc = "fclose"
    /\ emps' = [emps EXCEPT !.threads[t] = [pc |-> "idle", via |-> "none"],
                            !.locks[LockOf(emps.threads[t].via)] = 0]
    /\ UNCHANGED <<driver_vars, process, residual, solver, builder, converted, search, kkt, cache>>

NextEmps ==
    \E t \in 1..MaxThreads :
        \/ Enter(t)
        \/ Lock(t)
        \/ Fopen(t)
        \/ SetEmpsOutput(t)
        \/ EmpsInitCall(t)
        \/ ProcessFromFilename(t)
        \/ Fclose(t)

SpecEmps == InitIdle /\ [][NextEmps]_vars

----------------------------------------------------------------------------
(* interface: a parsed MPS or SIF model into a LinearProgram               *)
(*                                                                         *)
(* Names are numbers, ordered as the BTreeSet orders the strings.  A model *)
(* is [kind, rows, cols, entries, rhs, bounds]: rows maps each row name to *)
(* its type "N", "E", "L" or "G"; entries maps (row, column) to the        *)
(* coefficient; bounds maps a column to its bound type.  Indices are       *)
(* 0-based as in the code.                                                 *)

\* row names are drawn from 1..MaxRows
MaxRows == 3
\* column names are drawn from 1..MaxCols
MaxCols == 2

\* BTreeSet::into_iter: the names in increasing order
RECURSIVE Sorted(_)
Sorted(S) ==
    IF S = {} THEN <<>>
    ELSE LET least == CHOOSE x \in S : \A y \in S : x <= y
         IN  <<least>> \o Sorted(S \ {least})

\* the index given to a name by enumerate()
IndexOf(sorted, name) == (CHOOSE i \in 1..Len(sorted) : sorted[i] = name) - 1

\* the variable names: the columns of the MPS values, the SIF get_cols()
VarNames(model) ==
    IF model.kind = "mps" THEN {e[2] : e \in DOMAIN model.entries}
    ELSE model.cols

\* map_con_idx: the rows that are not of type N, in name order
ConNames(model) == Sorted({r \in DOMAIN model.rows : model.rows[r] # "N"})

\* n_slack
SlackCount(model) ==
    Cardinality({r \in DOMAIN model.rows : model.rows[r] \in {"L", "G"}})

\* a_triplets: the non-zero coefficients of the rows that are not of type N
CoefficientTriplets(model, names, cons) ==
    {<<IndexOf(cons, e[1]), IndexOf(names, e[2]), FromInt(model.entries[e])>> :
        e \in {d \in DOMAIN model.entries :
                  model.entries[d] # 0 /\ model.rows[d[1]] # "N"}}

IsInequality(model, r) == model.rows[r] \in {"L", "G"}

\* slack_triplets with the rows enumerated before they are filtered
SlackTripletsByRow(model, cons, n_var) ==
    {<<i - 1, n_var + (i - 1), IF model.rows[cons[i]] = "L" THEN One ELSE FromInt(-1)>> :
        i \in {k \in 1..Len(cons) : IsInequality(model, cons[k])}}

\* slack_triplets: the L and G rows in index order, enumerated
SlackTriplets(model, cons, n_var) ==
    LET IsIneq(r) == IsInequality(model, r)
        slack_rows == SelectSeq(cons, IsIneq)
    IN  {<<IndexOf(cons, slack_rows[i]), n_var + (i - 1),
           IF model.rows[slack_rows[i]] = "L" THEN One ELSE FromInt(-1)>> :
            i \in 1..Len(slack_rows)}

\* the bounds l, u after the bound records are applied
LowerBound(model, names, j) ==
    IF j > Len(names) \/ names[j] \notin DOMAIN model.bounds THEN Zero
    ELSE IF model.bounds[names[j]] \in {"Fr", "Mi"} THEN NegInf ELSE Zero

UpperBound(model, names, j) ==
    IF j > Len(names) \/ names[j] \notin DOMAIN model.bounds THEN PosInf
    ELSE IF model.bounds[names[j]] = "Mi" THEN Zero ELSE PosInf

\* b: the right-hand sides of the rows that are not of type N
RightHandSide(model, cons) ==
    [i \in 1..Len(cons) |->
        IF cons[i] \in DOMAIN model.rhs THEN FromInt(model.rhs[cons[i]]) ELSE Zero]

\* c: a coefficient of the variable on a row of type N (whichever the iteration
\* of the map visits last), 0 for the variables without one and the slacks
CostChoices(model, names, n) ==
    {c \in [1..n -> {FromInt(v) : v \in {0} \cup {model.entries[e] : e \in DOMAIN model.entries}}] :
        \A j \in 1..n :
            LET on_objective == {e \in DOMAIN model.entries :
                                    /\ j <= Len(names)
                                    /\ e[2] = names[j]
                                    /\ model.rows[e[1]] = "N"}
            IN  IF on_objective = {} THEN c[j] = Zero
                ELSE \E e \in on_objective : c[j] = FromInt(model.entries[e])}

\* try_into_linear_program and parse_sif, for the cost vector c
IntoLinearProgram(model, c) ==
    LET names == Sorted(VarNames(model))
        cons == ConNames(model)
        n_var == Len(names)
        n_con == Len(cons)
        n_slack == SlackCount(model)
    IN  [c |-> c,
         A |-> [nrows |-> n_con, ncols |-> n_var + n_slack,
                triplets |-> CoefficientTriplets(model, names, cons)
                             \cup SlackTriplets(model, cons, n_var)],
         b |-> RightHandSide(model, cons),
         l |-> [j \in 1..(n_var + n_slack) |-> LowerBound(model, names, j)],
         u |-> [j \in 1..(n_var + n_slack) |-> UpperBound(model, names, j)]]

\* The parsed models: MPS and SIF, with rows of every type.  Every column has
\* a coefficient on every row: 1, or 0 where the names agree.
Models ==
    {[kind |-> kind, rows |-> rows, cols |-> cols,
      entries |-> [e \in (DOMAIN rows) \X cols |-> IF zd /\ e[1] = e[2] THEN 0 ELSE 1],
      rhs |-> [r \in DOMAIN rows |-> r], bounds |-> bounds] :
        kind \in {"mps", "sif"},
        rows \in UNION {[R -> {"N", "E", "L", "G"}] : R \in SUBSET (1..MaxRows) \ {{}}},
        cols \in SUBSET (1..MaxCols) \ {{}},
        bounds \in UNION {[B -> {"Fr", "Mi"}] : B \in SUBSET (1..MaxCols)},
        zd \in BOOLEAN}

ConvertModel ==
    /\ converted = None
    /\ \E model \in {mo \in Models : DOMAIN mo.bounds \subseteq mo.cols} :
       \E c \in CostChoices(model, Sorted(VarNames(model)),
                            Len(Sorted(VarNames(model))) + SlackCount(model)) :
            converted' = Some([model |-> model, program |-> IntoLinearProgram(model, c)])
    /\ UNCHANGED <<driver_vars, process, residual, solver,
                   builder, emps, search, kkt, cache>>

SpecConvert == InitIdle /\ [][ConvertModel]_vars

----------------------------------------------------------------------------
(* lp::mpc::line_search: one call of get_primal_step_length                *)

\* the variables of the program searched
MaxSearchDim == 2

\* get_primal_step_length on a strictly interior x of a program with one or two
\* variables, for each direction and each safety factor.
PrimalStepLength ==
    /\ search = None
    /\ \E n \in 1..MaxSearchDim, l0 \in {NegInf, Zero, One},
          u0 \in {PosInf, FromInt(3)}, eta \in {Rat(1, 2), One} :
       \E x \in [1..n -> {y \in {FromInt(i) : i \in -1..2} : Lt(l0, y) /\ Lt(y, u0)}],
          dx \in [1..n -> DirVals] :
       \E l \in {[i \in 1..n |-> l0]}, u \in {[i \in 1..n |-> u0]} :
           search' = Some([x |-> x, l |-> l, u |-> u, dx |-> dx, eta |-> eta,
                           alpha |-> get_primal_step_length(eta, x, l, u, dx)])
    /\ UNCHANGED <<driver_vars, process, residual, solver, builder, emps, converted, kkt, cache>>

SpecLineSearch == InitIdle /\ [][PrimalStepLength]_vars

----------------------------------------------------------------------------
(* lp::mpc::augmented_system and qp::mpc::augmented_system: the stored     *)
(* matrix of StandardSystem                                                *)
(*                                                                         *)
(* A sparse matrix is given by its pattern: cols[j] is the set of rows of  *)
(* column j, stored in increasing order.  Rows, columns and offsets are    *)
(* 0-based as in the code; sequences hold index k at position k + 1.  An   *)
(* entry of the stored matrix is [row, val, diag]: val names the number    *)
(* stored and diag tells that its offset was pushed to diag_idx.           *)

\* variables of the program
MaxKktVars == 2
\* constraints of the program
MaxKktCons == 1
\* calls of solve and resolve on one system
MaxSolves == 2

Value(tag, i, j, version) == [tag |-> tag, row |-> i, col |-> j, version |-> version]

\* the rows of A's column j shifted by n_var, and the rows of A^T's column i
AColumn(A, j, n_var, tag) ==
    [k \in 1..Len(Sorted(A[j])) |->
        [row |-> Sorted(A[j])[k] + n_var, val |-> Value(tag, Sorted(A[j])[k], j, 0),
         diag |-> FALSE]]

ATColumn(A, i, tag) ==
    LET js == Sorted({j \in DOMAIN A : i \in A[j]})
    IN  [k \in 1..Len(js) |-> [row |-> js[k], val |-> Value(tag, i, js[k], 0), diag |-> FALSE]]

\* row_indices, values, col_ptrs and diag_idx after the columns were pushed
RECURSIVE Pushed(_, _)
Pushed(columns, upto) ==
    IF upto = 0 THEN <<>> ELSE Pushed(columns, upto - 1) \o columns[upto]

Stored(kind, n_var, n_con, columns) ==
    LET entries == Pushed(columns, Len(columns))
    IN  [kind |-> kind, n_var |-> n_var, n_con |-> n_con,
         col_ptrs |-> [j \in 1..(Len(columns) + 1) |-> Len(Pushed(columns, j - 1))],
         row_indices |-> [k \in 1..Len(entries) |-> entries[k].row],
         values |-> [k \in 1..Len(entries) |-> entries[k].val],
         diag_idx |-> [d \in 1..Cardinality({k \in 1..Len(entries) : entries[k].diag}) |->
                          Sorted({k \in 1..Len(entries) : entries[k].diag})[d] - 1]]

\* <lp::mpc::augmented_system::StandardSystem as AugmentedSystem>::new: the
\* matrix handed to analyze
LpStandardSystemNew(n_var, n_con, A) ==
    Stored("lp", n_var, n_con,
           [c \in 1..(n_var + n_con) |->
               IF c <= n_var
               THEN <<[row |-> c - 1, val |-> Value("1", c - 1, c - 1, 0), diag |-> FALSE]>>
                    \o AColumn(A, c - 1, n_var, "A")
               ELSE ATColumn(A, c - 1 - n_var, "A")])

\* qp StandardSystem::new, lines 84-105: the entries k..end-1 of Q's column j
RECURSIVE QpColumnFrom(_, _, _, _, _)
QpColumnFrom(j, k, end, q_row_idx, column) ==
    IF k >= end THEN column
    ELSE LET r == q_row_idx[k + 1]
             hessian == [row |-> r, val |-> Value("Q", r, j, 0), diag |-> FALSE]
         IN  IF k = j
             THEN QpColumnFrom(j, k + 1, end, q_row_idx,
                      Append(column, [row |-> r, val |-> Value("Q+1", r, j, 0),
                                      diag |-> TRUE]))
             ELSE IF k # end - 1 /\ j > r /\ j < q_row_idx[k + 2]
             THEN QpColumnFrom(j, k + 1, end, q_row_idx,
                      Append(Append(column, [row |-> j, val |-> Value("1", j, j, 0),
                                             diag |-> TRUE]), hessian))
             ELSE QpColumnFrom(j, k + 1, end, q_row_idx, Append(column, hessian))

\* <qp::mpc::augmented_system::StandardSystem as AugmentedSystem>::new
QpStandardSystemNew(n_var, n_con, Q, A) ==
    LET q == Stored("Q", n_var, 0,
                    [c \in 1..n_var |->
                        [k \in 1..Len(Sorted(Q[c - 1])) |->
                            [row |-> Sorted(Q[c - 1])[k], val |-> 0, diag |-> FALSE]]])
        hessian(j) == QpColumnFrom(j, q.col_ptrs[j + 1], q.col_ptrs[j + 2],
                                   q.row_indices, <<>>)
        has_diag(j) == \E k \in 1..Len(hessian(j)) : hessian(j)[k].diag
    IN  Stored("qp", n_var, n_con,
               [c \in 1..(n_var + n_con) |->
                   IF c <= n_var
                   THEN hessian(c - 1)
                        \o (IF has_diag(c - 1) THEN <<>>
                            ELSE <<[row |-> c - 1, val |-> Value("1", c - 1, c - 1, 0),
                                    diag |-> TRUE]>>)
                        \o AColumn(A, c - 1, n_var, "-A")
                   ELSE ATColumn(A, c - 1 - n_var, "-A")])

\* solve of the LP system, lines 142-144, without the column pointers
LpSolveValuesByColumn(sys, version) ==
    [k \in 1..Len(sys.values) |->
        IF k - 1 < sys.n_var THEN Value("-D", k - 1, k - 1, version) ELSE sys.values[k]]

\* solve of the LP system, lines 142-144: values[col_ptrs[j]] = -sys_diag[j]
LpSolveValues(sys, version) ==
    [k \in 1..Len(sys.values) |->
        IF \E j \in 0..(sys.n_var - 1) : sys.col_ptrs[j + 1] = k - 1
        THEN Value("-D", sys.row_indices[k], CHOOSE j \in 0..(sys.n_var - 1) :
                                                 sys.col_ptrs[j + 1] = k - 1, version)
        ELSE sys.values[k]]

\* solve of the QP system, lines 180-183: values[diag_idx[j]] = Q[j, j] + sys_diag[j]
QpSolveValues(sys, version) ==
    [k \in 1..Len(sys.values) |->
        IF \E j \in 0..(sys.n_var - 1) : sys.diag_idx[j + 1] = k - 1
        THEN Value("Q+D", sys.row_indices[k], CHOOSE j \in 0..(sys.n_var - 1) :
                                                  sys.diag_idx[j + 1] = k - 1, version)
        ELSE sys.values[k]]

\* Sys::new(program): the matrix is assembled and analyzed
NewSystem ==
    /\ kkt = None
    /\ \E n_var \in 1..MaxKktVars, n_con \in 0..MaxKktCons :
       \E A \in [0..(n_var - 1) -> SUBSET (0..(n_con - 1))],
          Q \in [0..(n_var - 1) -> SUBSET (0..(n_var - 1))] :
       \E sys \in {LpStandardSystemNew(n_var, n_con, A),
                   QpStandardSystemNew(n_var, n_con, Q, A)} :
           kkt' = Some([sys |-> sys, at_new |-> sys, Q |-> Q, A |-> A,
                        analyze |-> 1, factorize |-> 0, calls |-> 0, last |-> "new"])
    /\ UNCHANGED <<driver_vars, process, residual, solver, builder, emps, converted, search, cache>>

\* system.solve(state, rhs): the diagonal is overwritten, then factorize, then
\* resolve; an error of factorize returns before resolve
SolveSystem ==
    /\ kkt # None
    /\ kkt[1].calls < MaxSolves
    /\ \E factorize_ok \in BOOLEAN :
       \E values \in {IF kkt[1].sys.kind = "lp"
                      THEN LpSolveValues(kkt[1].sys, kkt[1].calls + 1)
                      ELSE QpSolveValues(kkt[1].sys, kkt[1].calls + 1)} :
           kkt' = Some([kkt[1] EXCEPT !.sys.values = values,
                                      !.factorize = @ + 1,
                                      !.calls = @ + 1,
                                      !.last = IF factorize_ok THEN "solve" ELSE "solve_err"])
    /\ UNCHANGED <<driver_vars, process, residual, solver, builder, emps, converted, search, cache>>

\* system.resolve(state, rhs): solver.solve on the right-hand side
ResolveSystem ==
    /\ kkt # None
    /\ kkt[1].calls < MaxSolves
    /\ kkt' = Some([kkt[1] EXCEPT !.calls = @ + 1, !.last = "resolve"])
    /\ UNCHANGED <<driver_vars, process, residual, solver, builder, emps, converted, search, cache>>

NextKkt ==
    \/ NewSystem
    \/ SolveSystem
    \/ ResolveSystem

SpecKkt == InitIdle /\ [][NextKkt]_vars

----------------------------------------------------------------------------
(* loaders: the cache-backed getters called from several threads           *)
(*                                                                         *)
(* A file of the cache directory is "absent", "partial" (created or        *)
(* truncated, its bytes not all written yet) or "complete".  The cache     *)
(* holds the archive netlib.tar.gz (marosmezaros.tar.gz), the .SIF files   *)
(* unpacked from it and the .emps files.  A thread makes one call; pc is   *)
(* its position in it, content what it read, outcome what the call gave.   *)

At(t, getter, at) == cache.threads[t].getter = getter /\ cache.threads[t].pc = at

Goto(t, at) == [cache EXCEPT !.threads[t].pc = at]

Return(c, t, outcome) == [c EXCEPT !.threads[t].pc = "done", !.threads[t].outcome = Some(outcome)]

\* A thread calls sif::netlib::get_case (sif::maros_mezaros::get_case, the same
\* code on the other archive) or netlib::download_compressed with a known case.
CallGetter(t) ==
    /\ cache.threads[t].pc = "idle"
    /\ \E getter \in {"get_case", "download_compressed"}, case \in Cases :
        cache' = [cache EXCEPT !.threads[t] =
                    [ThreadIdle EXCEPT !.getter = getter, !.case = case, !.pc = "exists"]]
    /\ UNCHANGED <<driver_vars, process, residual, solver, builder, emps, converted, search, kkt>>

\* download_compressed, lines 164-180: the cached file exists and its path is
\* returned, or the HTTP request is made, which fails or gives the bytes.
DownloadCompressedExists(t) ==
    /\ At(t, "download_compressed", "exists")
    /\ \E http_ok \in BOOLEAN :
        cache' = IF cache.emps[cache.threads[t].case] # "absent" THEN Return(cache, t, "Ok")
                 ELSE IF ~http_ok THEN Return(cache, t, "HttpError")
                 ELSE Goto(t, "create")
    /\ UNCHANGED <<driver_vars, process, residual, solver, builder, emps, converted, search, kkt>>

\* download_compressed, lines 184-188: OpenOptions create_new(true) and
\* expect("Failed to create file")
DownloadCompressedCreate(t) ==
    /\ At(t, "download_compressed", "create")
    /\ cache' = IF cache.emps[cache.threads[t].case] # "absent" THEN Return(cache, t, "panic")
                ELSE [Goto(t, "write") EXCEPT !.emps[cache.threads[t].case] = "partial"]
    /\ UNCHANGED <<driver_vars, process, residual, solver, builder, emps, converted, search, kkt>>

\* download_compressed, lines 189-193: write_all, sync_all, Ok(path)
DownloadCompressedWrite(t) ==
    /\ At(t, "download_compressed", "write")
    /\ cache' = Return([cache EXCEPT !.emps[cache.threads[t].case] = "complete"], t, "Ok")
    /\ UNCHANGED <<driver_vars, process, residual, solver, builder, emps, converted, search, kkt>>

\* get_case, the first test of file_path: read the file or fetch the archive
GetCaseExists(t) ==
    /\ At(t, "get_case", "exists")
    /\ cache' = IF cache.sif[cache.threads[t].case] # "absent" THEN Goto(t, "read")
                ELSE Goto(t, "archive_exists")
    /\ UNCHANGED <<driver_vars, process, residual, solver, builder, emps, converted, search, kkt>>

\* download_netlib_lp, lines 66-69: the archive exists, or download_http is
\* called, which fails or gives the bytes
DownloadArchiveExists(t) ==
    /\ At(t, "get_case", "archive_exists")
    /\ \E http_ok \in BOOLEAN :
        cache' = IF cache.tar # "absent" THEN Goto(t, "archive_read")
                 ELSE IF ~http_ok THEN Return(cache, t, "HttpError")
                 ELSE Goto(t, "archive_create")
    /\ UNCHANGED <<driver_vars, process, residual, solver, builder, emps, converted, search, kkt>>

\* std::fs::write of line 71 creates the file or truncates it,
DownloadArchiveCreate(t) ==
    /\ At(t, "get_case", "archive_create")
    /\ cache' = [Goto(t, "archive_write") EXCEPT !.tar = "partial"]
    /\ UNCHANGED <<driver_vars, process, residual, solver, builder, emps, converted, search, kkt>>

\* and then writes the bytes.
DownloadArchiveWrite(t) ==
    /\ At(t, "get_case", "archive_write")
    /\ cache' = [Goto(t, "archive_read") EXCEPT !.tar = "complete"]
    /\ UNCHANGED <<driver_vars, process, residual, solver, builder, emps, converted, search, kkt>>

\* download_netlib_lp, lines 73-77: std::fs::read of the archive; unpack_optrove
\* fails on bytes that are not the whole archive.
DownloadArchiveRead(t) ==
    /\ At(t, "get_case", "archive_read")
    /\ cache' = IF cache.tar = "complete"
                THEN [cache EXCEPT !.threads[t].pc = "unpack_create",
                                   !.threads[t].entry = 1,
                                   !.threads[t].content = Some(cache.tar)]
                ELSE Return([cache EXCEPT !.threads[t].content = Some(cache.tar)],
                            t, "UnpackError")
    /\ UNCHANGED <<driver_vars, process, residual, solver, builder, emps, converted, search, kkt>>

\* unpack_optrove, the loop of lines 33-42: entry.unpack creates the .SIF file
\* of the entry, replacing one that exists,
UnpackCreate(t) ==
    /\ At(t, "get_case", "unpack_create")
    /\ cache' = [Goto(t, "unpack_write") EXCEPT !.sif[cache.threads[t].entry] = "partial"]
    /\ UNCHANGED <<driver_vars, process, residual, solver, builder, emps, converted, search, kkt>>

\* and writes it; after the last entry get_case goes on.
UnpackWrite(t) ==
    /\ At(t, "get_case", "unpack_write")
    /\ LET entry == cache.threads[t].entry
       IN  cache' = [cache EXCEPT !.sif[entry] = "complete",
                                  !.threads[t].entry = entry + 1,
                                  !.threads[t].pc = IF entry = MaxCases THEN "recheck"
                                                    ELSE "unpack_create"]
    /\ UNCHANGED <<driver_vars, process, residual, solver, builder, emps, converted, search, kkt>>

\* get_case, the second test of file_path
GetCaseRecheck(t) ==
    /\ At(t, "get_case", "recheck")
    /\ cache' = IF cache.sif[cache.threads[t].case] = "absent" THEN Return(cache, t, "NotFound")
                ELSE Goto(t, "read")
    /\ UNCHANGED <<driver_vars, process, residual, solver, builder, emps, converted, search, kkt>>

\* get_case: read_to_string and parse_sif, which may or may not accept the
\* beginning of a file
GetCaseRead(t) ==
    /\ At(t, "get_case", "read")
    /\ LET content == cache.sif[cache.threads[t].case]
       IN  \E parsed \in BOOLEAN :
            /\ content = "complete" => parsed
            /\ cache' = Return([cache EXCEPT !.threads[t].content = Some(content)], t,
                               IF parsed THEN "Ok" ELSE "ParseError")
    /\ UNCHANGED <<driver_vars, process, residual, solver, builder, emps, converted, search, kkt>>

NextCache ==
    \E t \in CacheThreads :
        \/ CallGetter(t)
        \/ DownloadCompressedExists(t)
        \/ DownloadCompressedCreate(t)
        \/ DownloadCompressedWrite(t)
        \/ GetCaseExists(t)
        \/ DownloadArchiveExists(t)
        \/ DownloadArchiveCreate(t)
        \/ DownloadArchiveWrite(t)
        \/ DownloadArchiveRead(t)
        \/ UnpackCreate(t)
        \/ UnpackWrite(t)
        \/ GetCaseRecheck(t)
        \/ GetCaseRead(t)

SpecCache == InitIdle /\ [][NextCache]_vars

----------------------------------------------------------------------------
(* Claims                                                                  *)

\* An iteration has run to its end: iterate returned Ok.
IterationCompleted == pc \in {"callback", "terminate"} \/ calls.terminate > 0

\* C1: in every outer iteration the augmented-system matrix is numerically
\* factorized exactly once (the predictor factorizes, the corrector resolves).
C1_OneFactorizationPerIteration ==
    pc = "callback" => calls.factorize = 1

\* The iteration limit as the options state it.
C2_MaxIter == IF options.MaxIterations = 0 THEN 100 ELSE options.MaxIterations

\* C2: solve always terminates; it runs at most max_iter iterations (the
\* MaxIterations option, or 100 when that option is 0) and returns
\* IterationLimit exactly when max_iter iterations complete with no
\* linear-solver error and no terminator firing.
C2_TerminatesWithinMaxIter ==
    /\ <>(pc = "done")
    /\ [](/\ iter <= C2_MaxIter
          /\ calls.callback_call <= C2_MaxIter
          /\ calls.terminate <= C2_MaxIter)
    /\ [](pc = "done" =>
            (result = Ok("IterationLimit")
                <=> /\ result.kind = "Ok"
                    /\ calls.callback_call = C2_MaxIter
                    /\ calls.terminate = C2_MaxIter
                    /\ calls.last_check = "None"))

C2_Witness ==
    /\ pc = "done"
    /\ options.MaxIterations = 0
    /\ result = Ok("IterationLimit")
    /\ calls.terminate = 100

\* C3: every Ok status solve returns is Optimal, IterationLimit, TimeLimit or
\* Interrupted, whatever terminators are installed.
C3_ReturnedStatuses ==
    result.kind = "Ok" =>
        result.status \in {"Optimal", "IterationLimit", "TimeLimit", "Interrupted"}

C3_Witness ==
    /\ pc = "done"
    /\ terminator.kind = "Multi"
    /\ Len(terminator.terminators) = 2
    /\ result = Ok("TimeLimit")

\* C4: whenever solve returns Optimal, the primal and the dual infeasibility
\* of the final iterate are both at most the tolerance.
C4_OptimalWithinTolerance ==
    result = Ok("Optimal") =>
        /\ state.primal_infeasibility <= options.tolerance
        /\ state.dual_infeasibility <= options.tolerance

\* C5: after every iteration x is strictly inside its finite bounds.
C5_StrictInteriority ==
    \A i \in 1..Len(state.x) :
        /\ IsFinite(lp.l[i]) => Lt(lp.l[i], state.x[i])
        /\ IsFinite(lp.u[i]) => Lt(state.x[i], lp.u[i])

\* C6: after every iteration z_l >= 0 and z_u <= 0, with z_l = 0 at every
\* index whose lower bound is -infinity and z_u = 0 at every index whose upper
\* bound is +infinity.
C6_MultiplierSigns ==
    IterationCompleted =>
        \A i \in 1..Len(state.x) :
            /\ Le(Zero, state.z_l[i])
            /\ Le(state.z_u[i], Zero)
            /\ lp.l[i] = NegInf => IsZero(state.z_l[i])
            /\ lp.u[i] = PosInf => IsZero(state.z_u[i])

\* C7: the primal and the dual step length the line search returns lie in
\* (0, 1].
C7_StepLengthsInUnitInterval ==
    IterationCompleted =>
        /\ Gt(state.alpha_primal, Zero) /\ Le(state.alpha_primal, One)
        /\ Gt(state.alpha_dual, Zero) /\ Le(state.alpha_dual, One)

\* C8: once a linear-solver error has made solve return, no further iteration
\* runs, and the callback and the terminator have been invoked only for the
\* iterations completed before the failing one.
C8_ErrorAbortsSolve ==
    result.kind = "Err" =>
        /\ pc = "done"
        /\ iter = state.nit
        /\ calls.callback_call = state.nit
        /\ calls.terminate = state.nit

C8_Witness ==
    /\ result.kind = "Err"
    /\ state.nit = 1
    /\ calls.callback_call = 1

\* The terminators of t in the order one check visits them.
RECURSIVE C9_Leaves(_)
RECURSIVE C9_LeavesFrom(_, _)
C9_LeavesFrom(ts, i) ==
    IF i > Len(ts) THEN <<>> ELSE C9_Leaves(ts[i]) \o C9_LeavesFrom(ts, i + 1)
C9_Leaves(t) ==
    IF t.kind = "Multi" THEN C9_LeavesFrom(t.terminators, 1) ELSE <<t.kind>>

\* The indices of the terminators that fire in the current state.
C9_Firing(ls) ==
    {i \in 1..Len(ls) : Terminate(Leaf(ls[i]), prev_state).status # "None"}

C9_Min(S) == CHOOSE i \in S : \A j \in S : i <= j

C9_Recorded ==
    Some([primal_infeasibility |-> state.primal_infeasibility,
          dual_infeasibility |-> state.dual_infeasibility])

\* A step of the driver that is a termination check.
IsTerminateCheck == calls'.terminate = calls.terminate + 1

\* C9: a check of a MultiTerminator returns the status of the first terminator
\* of its list that fires and evaluates none after it (a SlowProgress
\* terminator behind the firing one records nothing); it returns None only
\* when none fires.
C9_MultiShortCircuit ==
    [][(IsTerminateCheck /\ terminator.kind = "Multi") =>
        LET ls == C9_Leaves(terminator)
            F == C9_Firing(ls)
        IN  IF F = {}
            THEN /\ calls'.last_check = "None"
                 /\ result' = Pending
                 /\ prev_state' = IF \E j \in 1..Len(ls) : ls[j] = "SlowProgress"
                                  THEN C9_Recorded ELSE prev_state
            ELSE /\ calls'.last_check = Terminate(Leaf(ls[C9_Min(F)]), prev_state).status
                 /\ result' = Ok(calls'.last_check)
                 /\ prev_state' = IF \E j \in 1..(C9_Min(F) - 1) : ls[j] = "SlowProgress"
                                  THEN C9_Recorded ELSE prev_state
      ]_vars

C9_Witness ==
    /\ pc = "done"
    /\ terminator = new_with_terminators(<<Leaf("Convergence"), Leaf("SlowProgress")>>)
    /\ result = Ok("Optimal")
    /\ calls.terminate = 2
    /\ prev_state # None
    /\ prev_state # C9_Recorded

\* The first terminator a check evaluates is the InterruptTerminator.
C10_InterruptFirst == C9_Leaves(terminator)[1] = "Interrupt"

\* C10: the interrupted flag is never cleared and setting it does not cut the
\* running iteration short; a termination check never returns Interrupted
\* while the flag is unset, and a check that reaches the InterruptTerminator
\* returns Interrupted once the flag is set.
C10_InterruptObserved ==
    [][/\ interrupted => interrupted'
       /\ interrupted' # interrupted => (pc' = pc /\ result' = result /\ state' = state)
       /\ IsTerminateCheck =>
            /\ calls'.last_check = "Interrupted" => interrupted
            /\ (C9_Leaves(terminator) # <<>> /\ C10_InterruptFirst) =>
                    (interrupted => /\ calls'.last_check = "Interrupted"
                                    /\ result' = Ok("Interrupted")
                                    /\ pc' = "done")
      ]_vars

C10_Witness ==
    /\ pc = "done"
    /\ terminator = Leaf("Interrupt")
    /\ result = Ok("Interrupted")
    /\ calls.terminate = 2
    /\ interrupted

\* The constructor call constructs an InterruptTerminator.
C11_ConstructsInterrupt(order) ==
    \E i \in DOMAIN order : order[i] \in {"Interrupt", "Multi"}

C11_InterruptsIn(order) ==
    Cardinality({i \in DOMAIN order : order[i] \in {"Interrupt", "Multi"}})

\* C11: at most one Ctrl-C handler is ever installed in a process; a constructor
\* call that constructs a second InterruptTerminator (directly, through
\* new_default, or through a Builder with InterruptTerminator and
\* MultiTerminator selected) panics and leaves the first handler in place.
C11_OneHandler ==
    [][process' # process =>
        /\ process'.installs <= 1
        /\ process.handler # 0 => process'.handler = process.handler
        /\ (process.handler # 0 /\ C11_ConstructsInterrupt(process'.last.order)) =>
                (~process'.last.ok /\ process'.panics = process.panics + 1)
        /\ C11_InterruptsIn(process'.last.order) >= 2 => ~process'.last.ok
        /\ (process.handler = 0 /\ C11_InterruptsIn(process'.last.order) = 1) =>
                (process'.last.ok /\ process'.handler # 0)
      ]_vars

C11_Witness ==
    /\ process.installs = 1
    /\ process.panics = 1
    /\ process.constructions = 1
    /\ process.last.order = <<"Multi", "Interrupt">>
    /\ ~process.last.ok

\* C12: Terminator::initialize is called exactly once per solve, before the
\* first iteration, so a TimeOutTerminator measures elapsed time from the
\* start of the solve.
C12_InitializeOncePerSolve ==
    [][(pc = "ready" /\ pc' # "ready") =>
        /\ calls'.terminator_initialize = 1
        /\ HasKind(terminator, "TimeOut") => start_time' = now
      ]_vars

\* C13: ConvergenceTerminator returns Optimal exactly when the norm of the
\* primal residual is at most tol*m and the norm of the dual residual is at
\* most tol*n (m constraints, n variables), and None otherwise.
C13_ConvergenceScaled ==
    (terminator = Leaf("Convergence") /\ calls.terminate = 1) =>
        /\ calls.last_check \in {"Optimal", "None"}
        /\ calls.last_check = "Optimal" <=>
            /\ state.primal_infeasibility <= options.tolerance * Len(state.y)
            /\ state.dual_infeasibility <= options.tolerance * Len(state.x)

\* C13 as amended: ConvergenceTerminator returns Optimal exactly when both
\* norms are at most the tolerance itself, and None otherwise.
C13_ConvergenceUnscaled ==
    (terminator = Leaf("Convergence") /\ calls.terminate = 1) =>
        /\ calls.last_check \in {"Optimal", "None"}
        /\ calls.last_check = "Optimal" <=>
            /\ state.primal_infeasibility <= options.tolerance
            /\ state.dual_infeasibility <= options.tolerance

C13_Witness ==
    /\ terminator = Leaf("Convergence")
    /\ calls.terminate = 1
    /\ calls.last_check = "None"
    /\ Len(state.y) = 2 /\ Len(state.x) = 2
    /\ options.tolerance = 1
    /\ state.primal_infeasibility = 2
    /\ state.dual_infeasibility = 1

\* C14: the barrier parameter mu recorded in the state at every iteration lies
\* in [mu_min, mu_max].
C14_MuClamped ==
    state.mu # None =>
        /\ Le(options.mu_min, state.mu)
        /\ Le(state.mu, options.mu_max)

\* f64 equality: -0.0 = +0.0, NaN equals nothing.
C15_Eq(a, b) == Le(a, b) /\ Le(b, a)
C15_ColEq(a, b) == Len(a) = Len(b) /\ \A i \in 1..Len(a) : C15_Eq(a[i], b[i])

\* -z_i (x_i - bound_i), and 0 where the bound is infinite
C15_Complementarity(z, x, bound) ==
    [i \in 1..Len(x) |->
        IF IsInf(bound[i]) THEN Zero ELSE Neg(Mul(z[i], Sub(x[i], bound[i])))]

C15_AsSpecified(r) ==
    /\ C15_ColEq(r.dual_feasibility,
                 ColAdd(ColAdd(ColAdd(ColNeg(lp.c),
                                      MatTVec(lp.A, state.y, Len(state.x))),
                               state.z_l), state.z_u))
    /\ C15_ColEq(r.primal_feasibility, ColSub(MatVec(lp.A, state.x), lp.b))
    /\ C15_ColEq(r.cs_lower, C15_Complementarity(state.z_l, state.x, lp.l))
    /\ C15_ColEq(r.cs_upper, C15_Complementarity(state.z_u, state.x, lp.u))

C15_DriverAsCoded(r) ==
    /\ C15_ColEq(r.dual_feasibility,
                 ColSub(ColSub(ColSub(lp.c, MatTVec(lp.A, state.y, Len(state.x))),
                               state.z_l), state.z_u))
    /\ C15_ColEq(r.primal_feasibility, ColSub(lp.b, MatVec(lp.A, state.x)))
    /\ C15_ColEq(r.cs_lower, C15_Complementarity(state.z_l, state.x, lp.l))
    /\ C15_ColEq(r.cs_upper, C15_Complementarity(state.z_u, state.x, lp.u))

C16_StageOrder ==
    solver # None =>
        /\ (solver.last.op = "factorize" /\ ~solver.last.analyzed) =>
                /\ solver.last.result = "Uninitialized"
                /\ solver.fields = solver.last.fields
        /\ (solver.last.op \in {"solve", "solve_in_place"} /\ ~solver.last.factorized) =>
                /\ solver.last.result = "Uninitialized"
                /\ solver.fields = solver.last.fields
                /\ solver.last.op = "solve_in_place" =>
                        solver.last.sol_after = solver.last.sol

\* A solver whose analyze succeeded and whose factorize failed was asked to solve.
C16_Witness ==
    /\ solver # None
    /\ solver.last.op = "solve"
    /\ solver.last.analyzed
    /\ ~solver.last.factorized
    /\ solver.kind = "SupernodalSparseCholesky"
    /\ solver.fields.symbolic # None
    /\ solver.fields.L_values # None

\* The linear-algebra kernel each solver type names.
C17_Kernel(solver_type) ==
    CASE solver_type = "MpcSimplicialCholesky" -> "SimplicialSparseCholesky"
      [] solver_type = "MpcSupernodalCholesky" -> "SupernodalSparseCholesky"
      [] solver_type = "MpcSimplicialLu" -> "SimplicialSparseLu"

\* C17: the solver that LPSolverBuilder::build or QPSolverBuilder::build returns
\* runs on the kernel of its solver type: simplicial LDL^T, supernodal LDL^T or
\* sparse LU.
C17_KernelPerType ==
    (builder # None /\ builder.built # None /\ builder.built[1].ok) =>
        /\ builder.built[1].solver.LinSolve = C17_Kernel(builder.solver_type[1])
        /\ builder.built[1].solver.Sys.Solver = C17_Kernel(builder.solver_type[1])

\* A thread executes the decompressor from its call of set_emps_output to the
\* return of process_from_filename.
C18_InDecompressor(t) ==
    emps.threads[t].pc \in {"emps_init", "process_from_filename"}

\* C18: at most one thread at a time executes the EMPS C decompressor,
\* whichever decompress_mps entry points the callers go through.
C18_OneDecompressor ==
    Cardinality({t \in 1..MaxThreads : C18_InDecompressor(t)}) <= 1

\* The L and G rows of a model in constraint-index order.
C19_Inequalities(model) ==
    LET IsIneq(r) == model.rows[r] \in {"L", "G"}
    IN  SelectSeq(Sorted({r \in DOMAIN model.rows : model.rows[r] # "N"}), IsIneq)

C19_ConstraintIndex(model, r) ==
    Cardinality({q \in DOMAIN model.rows : model.rows[q] # "N" /\ q < r})

\* C19: the converted program has (named variables) + (L and G rows) columns
\* and (non-objective rows) rows; the k-th L or G row in constraint-index order
\* has its own slack column n_var + k whose single nonzero is +1 (L) or -1 (G)
\* in that row, so E rows have none; every slack column has bounds [0, +inf).
C19_SlackColumns ==
    converted # None =>
        LET model == converted[1].model
            p == converted[1].program
            n_var == Cardinality(model.cols)
            ineq == C19_Inequalities(model)
            m == Cardinality({r \in DOMAIN model.rows : model.rows[r] # "N"})
        IN  /\ p.A.ncols = n_var + Len(ineq)
            /\ Len(p.c) = p.A.ncols /\ Len(p.l) = p.A.ncols /\ Len(p.u) = p.A.ncols
            /\ p.A.nrows = m /\ Len(p.b) = m
            /\ \A k \in 1..Len(ineq) :
                /\ {t \in p.A.triplets : t[2] = n_var + (k - 1)}
                     = {<<C19_ConstraintIndex(model, ineq[k]), n_var + (k - 1),
                          IF model.rows[ineq[k]] = "L" THEN One ELSE FromInt(-1)>>}
                /\ p.l[n_var + k] = Zero
                /\ p.u[n_var + k] = PosInf
            /\ \A t \in p.A.triplets : t[1] \in 0..(m - 1) /\ t[2] \in 0..(p.A.ncols - 1)

\* A model was converted in which an E row precedes a G row and an L row, with
\* one free variable.
C19_Witness ==
    /\ converted # None
    /\ converted[1].model.rows = <<"E", "G", "L">>
    /\ converted[1].model.cols = {2}
    /\ converted[1].model.bounds = (2 :> "Fr")
    /\ converted[1].program.A.ncols = 3

\* C21: the step length returned by get_primal_step_length is
\* min(1, eta * minimum of the candidates), where index i gives the candidate
\* -(x_i - l_i)/dx_i only if l_i is finite and dx_i < 0, and the candidate
\* -(x_i - u_i)/dx_i only if u_i is finite and dx_i > 0; a bound the direction
\* does not move toward gives none, and without a candidate the result is 1.
C21_Candidate(x, l, u, dx) ==
    FMin(IF IsFinite(l) /\ Lt(dx, Zero) THEN Div(Neg(Sub(x, l)), dx) ELSE PosInf,
         IF IsFinite(u) /\ Gt(dx, Zero) THEN Div(Neg(Sub(x, u)), dx) ELSE PosInf)

C21_StepLength(s) ==
    FMin(One, Mul(s.eta, col_min([i \in 1..Len(s.x) |->
                                    C21_Candidate(s.x[i], s.l[i], s.u[i], s.dx[i])])))

C21_CandidatesTowardBounds ==
    search # None => search[1].alpha = C21_StepLength(search[1])

\* The iterations of this solve that iterate has completed without error.
C23_Completed ==
    iter + (IF pc \in {"callback", "terminate"} \/ calls.last_check # "None"
            THEN 1 ELSE 0)

\* C23: in each solve callback.init is invoked once, before the first
\* iteration; in every iteration that completes without error callback.call is
\* invoked exactly once, on the updated state and before the termination check
\* of that iteration, the iteration at which a terminator fires included.
C23_CallbackOncePerIteration ==
    /\ [](/\ calls.callback_init = (IF pc = "ready" THEN 0 ELSE 1)
          /\ calls.callback_call = C23_Completed - (IF pc = "callback" THEN 1 ELSE 0)
          /\ calls.terminate = calls.callback_call - (IF pc = "terminate" THEN 1 ELSE 0))
    /\ [][/\ calls'.callback_init # calls.callback_init =>
                (pc = "ready" /\ iter' = 0 /\ calls'.callback_call = 0)
          /\ calls'.callback_call # calls.callback_call =>
                /\ calls'.callback_call = calls.callback_call + 1
                /\ pc = "callback" /\ pc' = "terminate"
                /\ state' = state /\ state.nit = iter /\ state.status = "InProgress"
          /\ IsTerminateCheck =>
                /\ calls.callback_call = calls.terminate + 1
                /\ state' = state
          /\ (pc = "loop" /\ pc' = "done" /\ result'.kind = "Err") =>
                calls'.callback_call = iter]_vars

\* A terminator fired at the second iteration, after the second call of the
\* callback.
C23_Witness ==
    /\ pc = "done"
    /\ calls.last_check # "None"
    /\ iter = 1
    /\ calls.callback_init = 1
    /\ calls.callback_call = 2
    /\ calls.terminate = 2

\* The offsets of the entries of column j of a stored matrix.
C24_Offsets(sys, j) == {k \in 0..(Len(sys.row_indices) - 1) :
                            sys.col_ptrs[j + 1] <= k /\ k < sys.col_ptrs[j + 2]}

C25_OnlyDiagonalWritten ==
    (kkt # None /\ kkt[1].sys.kind = "lp") =>
        LET sys == kkt[1].sys
            at_new == kkt[1].at_new
        IN  /\ sys.col_ptrs = at_new.col_ptrs
            /\ sys.row_indices = at_new.row_indices
            /\ Len(sys.values) = Len(at_new.values)
            /\ \A j \in 0..(sys.n_var + sys.n_con - 1) :
               \A k \in C24_Offsets(sys, j) :
                    sys.row_indices[k + 1] # j => sys.values[k + 1] = at_new.values[k + 1]
            /\ Cardinality({k \in 1..Len(sys.values) : sys.values[k] # at_new.values[k]})
                    \in {0, sys.n_var}
            /\ kkt[1].analyze = 1

\* Two variables on one constraint: after two solves both diagonal values are
\* new and the four entries of A and A^T are in place.
C25_Witness ==
    /\ kkt # None
    /\ kkt[1].sys.kind = "lp"
    /\ kkt[1].sys.n_var = 2
    /\ Len(kkt[1].sys.values) = 6
    /\ kkt[1].calls = 2
    /\ kkt[1].factorize = 2
    /\ kkt[1].last = "solve"
    /\ Cardinality({k \in 1..6 : kkt[1].sys.values[k] # kkt[1].at_new.values[k]}) = 2

\* The change of the two norms since the check that recorded prev_state.
C26_Change ==
    [primal |-> Abs(state.primal_infeasibility - prev_state[1].primal_infeasibility),
     dual |-> Abs(state.dual_infeasibility - prev_state[1].dual_infeasibility)]

\* C26 as stated: a SlowProgressTerminator never fires on its first check, and
\* on a later check it fires (Optimal) exactly when both norms differ from
\* their values at the previous check by less than slow_progress_tolerance.
C26_FiresBelowTolerance ==
    [][(IsTerminateCheck /\ terminator.kind = "SlowProgress") =>
        /\ prev_state = None => calls'.last_check = "None"
        /\ prev_state # None =>
            (calls'.last_check = "Optimal" <=>
                /\ C26_Change.primal < options.slow_progress_tolerance
                /\ C26_Change.dual < options.slow_progress_tolerance)]_vars

\* C26, amended: a SlowProgressTerminator never fires on its first check and
\* records the norms; on a later check it fires (Optimal) exactly when both
\* norms differ from the recorded ones by at most slow_progress_tolerance, and
\* otherwise records the new norms.
C26_FiresWithinTolerance ==
    [][(IsTerminateCheck /\ terminator.kind = "SlowProgress") =>
        LET fires == /\ prev_state # None
                     /\ C26_Change.primal <= options.slow_progress_tolerance
                     /\ C26_Change.dual <= options.slow_progress_tolerance
        IN  /\ calls'.last_check = (IF fires THEN "Optimal" ELSE "None")
            /\ fires => (prev_state' = prev_state /\ result' = Ok("Optimal"))
            /\ ~fires => prev_state' = Some([primal_infeasibility |-> state.primal_infeasibility,
                                             dual_infeasibility |-> state.dual_infeasibility])]_vars

\* The second check of a SlowProgressTerminator fired on norms that differ from
\* the recorded ones by exactly the tolerance.
C26_Witness ==
    /\ terminator.kind = "SlowProgress"
    /\ calls.terminate = 2
    /\ calls.last_check = "Optimal"
    /\ prev_state # None
    /\ C26_Change.primal = options.slow_progress_tolerance
    /\ C26_Change.dual = options.slow_progress_tolerance

\* C27: when the predictor or the corrector linear solve of an iteration
\* fails, x, y, z_l, z_u and the step lengths alpha_primal, alpha_dual of the
\* state are those of the start of the iteration.
C27_FailedIterationKeepsIterate ==
    [][(pc = "loop" /\ result'.kind = "Err") =>
        /\ state'.x = state.x
        /\ state'.y = state.y
        /\ state'.z_l = state.z_l
        /\ state'.z_u = state.z_u
        /\ state'.alpha_primal = state.alpha_primal
        /\ state'.alpha_dual = state.alpha_dual]_vars

\* The corrector solve of an iteration on a program with one variable failed,
\* after the line search on the affine step.
C27_Witness ==
    /\ result.kind = "Err"
    /\ pc = "done"
    /\ Len(state.x) = 1
    /\ state.safety_factor = Rat(99, 100)

\* C28: when solve has returned Ok(s), the status stored in the SolverState
\* (read with get_status) equals s.
C28_StoredStatusIsReturned ==
    (pc = "done" /\ result.kind = "Ok") => state.status = result.status

\* C29: a Cholesky solver never solves with a factorization handle that is out
\* of date with its value buffer: whenever ldlt is set it refers to the current
\* L_values, and a solve_in_place that follows a failed factorize returns an
\* error instead of using the handle of an earlier factorize.
C29_HandleIsCurrent ==
    (solver # None /\ solver.kind # "SimplicialSparseLu") =>
        /\ solver.fields.ldlt # None =>
            /\ solver.fields.ldlt = Some("valid")
            /\ solver.fields.L_values \in {Some(mat) : mat \in 1..MaxMat}
        /\ (solver.last.op = "solve_in_place" /\ solver.last.fields.ldlt # None
                /\ solver.last.fields.L_values \notin {Some(mat) : mat \in 1..MaxMat}) =>
            solver.last.result \in {"Uninitialized", "MemoryAllocation"}

\* C30: concurrent calls of the cache-backed getters from several threads all
\* succeed once the download succeeds: no caller reads a partially written
\* cache file, and none fails or panics because another caller is creating it.
C30_ConcurrentGettersSucceed ==
    \A t \in CacheThreads :
        (cache.threads[t].pc = "done" /\ cache.threads[t].outcome # Some("HttpError")) =>
            /\ cache.threads[t].outcome = Some("Ok")
            /\ cache.threads[t].content # Some("partial")

====
